---- MODULE Spec2Model ----
(***************************************************************************)
(* Quality-scoring / prediction pipeline of the code-quality extension:    *)
(* AnalysisEngine (history, persistence, retraining, generateAnalysis),    *)
(* LinearRegressionModel, TimeSeriesModel, ProjectAnalyzer's cache and the *)
(* document scorer analyzeCodeQuality.                                     *)
(*                                                                         *)
(* Numbers.  JavaScript numbers that are not integers (complexity, means,  *)
(* the trend slope) are exact rationals <<n, d>> with d > 0, in lowest     *)
(* terms.  Times are milliseconds, counted from a Thursday 00:00 UTC (as   *)
(* the Unix epoch is), so that every value fits TLC's 32-bit integers.     *)
(***************************************************************************)
EXTENDS Integers, Sequences, FiniteSets, TLC

(***************************************************************************)
(* Rational arithmetic                                                     *)
(***************************************************************************)
Abs(x) == IF x < 0 THEN -x ELSE x

RECURSIVE Gcd(_, _)
Gcd(a, b) == IF b = 0 THEN a ELSE Gcd(b, a % b)

Norm(n, d) ==
    LET g == Gcd(Abs(n), Abs(d))
        s == IF d < 0 THEN -1 ELSE 1
    IN  <<(s * n) \div g, (s * d) \div g>>

R(n) == <<n, 1>>
Frac(n, d) == Norm(n, d)
RAdd(a, b) == Norm(a[1] * b[2] + b[1] * a[2], a[2] * b[2])
RSub(a, b) == Norm(a[1] * b[2] - b[1] * a[2], a[2] * b[2])
RMul(a, b) == Norm(a[1] * b[1], a[2] * b[2])
RDiv(a, b) == Norm(a[1] * b[2], a[2] * b[1])
RLt(a, b) == a[1] * b[2] < b[1] * a[2]
RLe(a, b) == a[1] * b[2] <= b[1] * a[2]
RMin(a, b) == IF RLt(b, a) THEN b ELSE a
RMax(a, b) == IF RLt(a, b) THEN b ELSE a
\* Math.round: the nearest integer, halves towards +infinity
RRound(a) == (2 * a[1] + a[2]) \div (2 * a[2])
IsInt(a) == a[2] = 1

\* the sum of f[lo..hi], halving the range (integer addition is associative)
RECURSIVE SumInt(_, _, _)
SumInt(f, lo, hi) ==
    IF lo > hi THEN 0
    ELSE IF lo = hi THEN f[lo]
    ELSE LET mid == (lo + hi) \div 2
         IN  SumInt(f, lo, mid) + SumInt(f, mid + 1, hi)

SumOver(s, F(_)) == SumInt([i \in 1..Len(s) |-> F(s[i])], 1, Len(s))

RECURSIVE RSumSeq(_, _)
RSumSeq(s, i) == IF i > Len(s) THEN R(0) ELSE RAdd(s[i], RSumSeq(s, i + 1))

(***************************************************************************)
(* Time                                                                    *)
(***************************************************************************)
MinuteMs == 60 * 1000
HourMs   == 60 * 60 * 1000
DayMs    == 24 * 60 * 60 * 1000

\* Date.getDay(), 0 = Sunday; day 0 of the time axis is a Thursday
GetDay(timestamp) == (4 + timestamp \div DayMs) % 7
GetHours(timestamp) == (timestamp % DayMs) \div HourMs

(***************************************************************************)
(* QualityPattern                                                          *)
(***************************************************************************)
Pattern(ts, score, duration, lines, files, issues, ptype, cx) ==
    [timestamp |-> ts, qualityScore |-> score, sessionDuration |-> duration,
     linesAnalyzed |-> lines, filesModified |-> files, issuesFound |-> issues,
     projectType |-> ptype, complexity |-> cx]

\* Array.prototype.slice(-n)
SliceLast(s, n) == IF Len(s) <= n THEN s ELSE SubSeq(s, Len(s) - n + 1, Len(s))

ScoreOf(q) == q.qualityScore
IssuesOf(q) == q.issuesFound

\* reduce((sum, q) => sum + q.<field>, 0) / length
Mean(s, F(_)) == Frac(SumOver(s, F), Len(s))

Clamp(lo, hi, x) == RMax(lo, RMin(hi, x))
ClampInt(lo, hi, x) == IF x < lo THEN lo ELSE IF x > hi THEN hi ELSE x

(***************************************************************************)
(* TimeSeriesModel                                                         *)
(***************************************************************************)
TimeSeriesModel_new ==
    [trendCoefficient |-> R(0), seasonalFactors |-> <<>>, isInitialized |-> FALSE]

\* (n*sumXY - sumX*sumY) / (n*sumXX - sumX*sumX).  With x = 0..n-1 the sum
\* sumX is n*(n-1)/2, so numerator and denominator share the factor n/2;
\* it is divided out before multiplying, which keeps the products of a
\* 1000-entry history within 32 bits.  The quotient is the same rational.
TrendSlope(n, sumX, sumY, sumXY, sumXX) ==
    LET k == (2 * sumX) \div n
    IN  Frac(2 * sumXY - k * sumY, 2 * sumXX - k * sumX)

\* analyzeTrend that keeps the old coefficient when it has under two samples
analyzeTrendKeeping(m, qualityHistory) ==
    IF Len(qualityHistory) < 2
    THEN m
    ELSE LET n == Len(qualityHistory)
             sumX  == SumInt([i \in 1..n |-> i - 1], 1, n)
             sumY  == SumInt([i \in 1..n |-> qualityHistory[i].qualityScore], 1, n)
             sumXY == SumInt([i \in 1..n |-> (i - 1) * qualityHistory[i].qualityScore], 1, n)
             sumXX == SumInt([i \in 1..n |-> (i - 1) * (i - 1)], 1, n)
         IN  [m EXCEPT !.trendCoefficient = TrendSlope(n, sumX, sumY, sumXY, sumXX)]

analyzeTrend(m, qualityHistory) ==
    IF Len(qualityHistory) < 2
    THEN [m EXCEPT !.trendCoefficient = R(0)]
    ELSE LET n == Len(qualityHistory)
             sumX  == SumInt([i \in 1..n |-> i - 1], 1, n)
             sumY  == SumInt([i \in 1..n |-> qualityHistory[i].qualityScore], 1, n)
             sumXY == SumInt([i \in 1..n |-> (i - 1) * qualityHistory[i].qualityScore], 1, n)
             sumXX == SumInt([i \in 1..n |-> (i - 1) * (i - 1)], 1, n)
         IN  [m EXCEPT !.trendCoefficient = TrendSlope(n, sumX, sumY, sumXY, sumXX)]

\* the samples of qualityHistory that fall on day-of-week d
OnDay(qualityHistory, d) ==
    LET SameDay(quality) == GetDay(quality.timestamp) = d
    IN  SelectSeq(qualityHistory, SameDay)

SeasonalFactor(samplesOfDay) ==
    IF Len(samplesOfDay) > 0
    THEN Frac(SumOver(samplesOfDay, ScoreOf), Len(samplesOfDay))
    ELSE R(75)

analyzeSeasonality(m, qualityHistory) ==
    [m EXCEPT !.seasonalFactors =
        [d \in 1..7 |-> SeasonalFactor(OnDay(qualityHistory, d - 1))]]

\* train with the length test off by one: six samples already suffice
TimeSeriesModel_trainFromSix(m, qualityHistory) ==
    IF Len(qualityHistory) < 6
    THEN m
    ELSE [analyzeSeasonality(analyzeTrend(m, qualityHistory), qualityHistory)
            EXCEPT !.isInitialized = TRUE]

TimeSeriesModel_train(m, qualityHistory) ==
    IF Len(qualityHistory) < 7
    THEN m
    ELSE [analyzeSeasonality(analyzeTrend(m, qualityHistory), qualityHistory)
            EXCEPT !.isInitialized = TRUE]

calculateSeasonality(m, now) ==
    IF Len(m.seasonalFactors) = 0 THEN R(0)
    ELSE LET today == GetDay(now)
             avgSeasonal == RDiv(RSumSeq(m.seasonalFactors, 1), R(7))
         IN  RSub(m.seasonalFactors[today + 1], avgSeasonal)

TimeSeriesModel_calculateConfidence(dataPoints) ==
    IF dataPoints < 7 THEN Frac(3, 10)
    ELSE IF dataPoints < 30 THEN Frac(6, 10)
    ELSE IF dataPoints < 90 THEN Frac(8, 10)
    ELSE Frac(9, 10)

defaultPrediction ==
    [daily |-> 75, weekly |-> 75, trend |-> "stable",
     seasonality |-> R(0), confidence |-> Frac(3, 10)]

\* the label with the comparisons made inclusive
TrendLabelInclusive(trendCoefficient) ==
    IF RLe(R(2), trendCoefficient) THEN "improving"
    ELSE IF RLe(trendCoefficient, R(-2)) THEN "declining"
    ELSE "stable"

TrendLabel(trendCoefficient) ==
    IF RLt(R(2), trendCoefficient) THEN "improving"
    ELSE IF RLt(trendCoefficient, R(-2)) THEN "declining"
    ELSE "stable"

\* predict averaging the whole history instead of its last seven samples
TimeSeriesModel_predictWholeHistory(m, qualityHistory, now) ==
    IF ~m.isInitialized \/ Len(qualityHistory) = 0
    THEN defaultPrediction
    ELSE LET avgQuality == Mean(qualityHistory, ScoreOf)
             dailyPrediction == RAdd(avgQuality, m.trendCoefficient)
             weeklyPrediction == RAdd(avgQuality, RMul(m.trendCoefficient, R(7)))
         IN  [daily |-> ClampInt(0, 100, RRound(dailyPrediction)),
              weekly |-> ClampInt(0, 100, RRound(weeklyPrediction)),
              trend |-> TrendLabel(m.trendCoefficient),
              seasonality |-> calculateSeasonality(m, now),
              confidence |-> TimeSeriesModel_calculateConfidence(Len(qualityHistory))]

TimeSeriesModel_predict(m, qualityHistory, now) ==
    IF ~m.isInitialized \/ Len(qualityHistory) = 0
    THEN defaultPrediction
    ELSE LET recentQuality == SliceLast(qualityHistory, 7)
             avgQuality == Mean(recentQuality, ScoreOf)
             dailyPrediction == RAdd(avgQuality, m.trendCoefficient)
             weeklyPrediction == RAdd(avgQuality, RMul(m.trendCoefficient, R(7)))
         IN  [daily |-> ClampInt(0, 100, RRound(dailyPrediction)),
              weekly |-> ClampInt(0, 100, RRound(weeklyPrediction)),
              trend |-> TrendLabel(m.trendCoefficient),
              seasonality |-> calculateSeasonality(m, now),
              confidence |-> TimeSeriesModel_calculateConfidence(Len(qualityHistory))]

(***************************************************************************)
(* LinearRegressionModel                                                   *)
(*                                                                         *)
(* The gradient descent of trainLinearRegression runs 100 epochs of        *)
(* floating-point updates; its result is kept as the term                  *)
(* Descent(start weights, start bias, features, targets), which names the  *)
(* inputs the loop reads (integer features as integers); weights is <<>>,  *)
(* the empty array, or holds that term.  The value of bias + weights .     *)
(* features that predictValue computes from such a term is an input of     *)
(* predict (dot).                                                          *)
(***************************************************************************)
LinearRegressionModel_new ==
    [weights |-> <<>>, bias |-> [fitted |-> FALSE, start |-> 0], isTrained |-> FALSE]

encodeProjectType(projectType) ==
    CASE projectType = "JavaScript" -> 1
      [] projectType = "TypeScript" -> 2
      [] projectType = "Python" -> 3
      [] projectType = "Java" -> 4
      [] projectType = "C++" -> 5
      [] projectType = "C#" -> 6
      [] projectType = "Go" -> 7
      [] projectType = "Rust" -> 8
      [] OTHER -> 0

getTimeOfDay(timestamp) == Frac(GetHours(timestamp), 24)
getDayOfWeek(timestamp) == Frac(GetDay(timestamp), 7)

extractFeatures(qualityHistory) ==
    [i \in 1..Len(qualityHistory) |->
        LET quality == qualityHistory[i]
        IN  <<quality.sessionDuration, quality.linesAnalyzed,
              quality.filesModified, quality.issuesFound,
              quality.complexity, encodeProjectType(quality.projectType),
              getTimeOfDay(quality.timestamp), getDayOfWeek(quality.timestamp)>>]

Zeros(n) == [j \in 1..n |-> 0]

Descent(w0, b0, features, targets) ==
    [startWeights |-> w0, startBias |-> b0, features |-> features, targets |-> targets]

\* the bias that the descent kept in weights ends with, started from b0
FittedBias(b0) == [fitted |-> TRUE, start |-> b0]

\* a warm start: a trained model continues from the bias it ended with
trainLinearRegressionWarm(m, features, targets) ==
    LET numFeatures == Len(features[1])
        b0 == IF m.bias.fitted THEN m.bias.start + 1 ELSE 0
    IN  [m EXCEPT !.weights = <<Descent(Zeros(numFeatures), b0, features, targets)>>,
                  !.bias = FittedBias(b0)]

trainLinearRegression(m, features, targets) ==
    LET numFeatures == Len(features[1])
    IN  [m EXCEPT !.weights = <<Descent(Zeros(numFeatures), 0, features, targets)>>,
                  !.bias = FittedBias(0)]

\* train with a lower length test: three samples already suffice
LinearRegressionModel_trainFromThree(m, qualityHistory) ==
    IF Len(qualityHistory) < 3
    THEN m
    ELSE LET features == extractFeatures(qualityHistory)
             targets == [i \in 1..Len(qualityHistory) |-> qualityHistory[i].qualityScore]
         IN  [trainLinearRegression(m, features, targets) EXCEPT !.isTrained = TRUE]

\* train that marks the model untrained when it refuses a short history
LinearRegressionModel_trainResetting(m, qualityHistory) ==
    IF Len(qualityHistory) < 5
    THEN [m EXCEPT !.isTrained = FALSE]
    ELSE LET features == extractFeatures(qualityHistory)
             targets == [i \in 1..Len(qualityHistory) |-> qualityHistory[i].qualityScore]
         IN  [trainLinearRegression(m, features, targets) EXCEPT !.isTrained = TRUE]

LinearRegressionModel_train(m, qualityHistory) ==
    IF Len(qualityHistory) < 5
    THEN m
    ELSE LET features == extractFeatures(qualityHistory)
             targets == [i \in 1..Len(qualityHistory) |-> qualityHistory[i].qualityScore]
         IN  [trainLinearRegression(m, features, targets) EXCEPT !.isTrained = TRUE]

\* dot: the value of bias + sum of weights[i] * features[i]
predictValue(m, features, dot) ==
    IF m.weights = <<>> THEN R(75) ELSE Clamp(R(0), R(100), dot)

calculatePredictionConfidence(dataPoints) ==
    IF dataPoints = 0 THEN Frac(3, 10)
    ELSE IF dataPoints < 10 THEN Frac(5, 10)
    ELSE IF dataPoints < 50 THEN Frac(7, 10)
    ELSE Frac(9, 10)

DurationOf(q) == q.sessionDuration
LinesOf(q) == q.linesAnalyzed
FilesOf(q) == q.filesModified

extractFeaturesFromCurrent(recentQuality, projectMetrics, now) ==
    IF Len(recentQuality) = 0
    THEN <<0, 0, 0, 0,
           IF projectMetrics.complexity = R(0) THEN Frac(1, 2) ELSE projectMetrics.complexity,
           0, 0, 0>>
    ELSE LET n == Len(recentQuality)
             avgComplexity == RDiv(RSumSeq([i \in 1..n |-> recentQuality[i].complexity], 1), R(n))
         IN  <<Mean(recentQuality, DurationOf), Mean(recentQuality, LinesOf),
               Mean(recentQuality, FilesOf), Mean(recentQuality, IssuesOf),
               avgComplexity,
               encodeProjectType(recentQuality[n].projectType),
               getTimeOfDay(now), getDayOfWeek(now)>>

fallbackPrediction(recentQuality) ==
    IF Len(recentQuality) = 0
    THEN [daily |-> 75, weekly |-> 75, confidence |-> Frac(3, 10),
          riskFactors |-> [bugProbability |-> R(20)]]
    ELSE LET avgQuality == Mean(recentQuality, ScoreOf)
             avgIssues == Mean(recentQuality, IssuesOf)
             bugProbability == RMin(R(100), RMul(avgIssues, R(15)))
         IN  [daily |-> RRound(avgQuality), weekly |-> RRound(avgQuality),
              confidence |-> Frac(5, 10),
              riskFactors |-> [bugProbability |-> bugProbability]]

LinearRegressionModel_predict(m, recentQuality, projectMetrics, now, dot) ==
    IF ~m.isTrained \/ Len(recentQuality) = 0
    THEN fallbackPrediction(recentQuality)
    ELSE LET features == extractFeaturesFromCurrent(recentQuality, projectMetrics, now)
             prediction == predictValue(m, features, dot)
             bugProbability ==
                 RMax(R(0), RMin(R(100), RMul(RSub(R(100), prediction), Frac(8, 10))))
         IN  [daily |-> IF RRound(prediction) < 0 THEN 0 ELSE RRound(prediction),
              weekly |-> IF RRound(prediction) < 0 THEN 0 ELSE RRound(prediction),
              confidence |-> calculatePredictionConfidence(Len(recentQuality)),
              riskFactors |-> [bugProbability |-> bugProbability]]

(***************************************************************************)
(* ProjectAnalyzer                                                         *)
(*                                                                         *)
(* The workspace is what the traversal finds: Null (no workspace folder)   *)
(* or the facts fileCount, totalLines, projectType, languages, hasTests,   *)
(* hasDependencies, gitActivity.                                           *)
(***************************************************************************)
\* null and undefined are the empty tuple; a value v that may be absent is <<v>>
Null == <<>>
Undefined == <<>>
Some(v) == <<v>>
ValueOf(opt) == opt[1]

cacheValidityMs == 5 * 60 * 1000

ProjectAnalyzer_new == [cachedMetrics |-> Null, lastAnalysisTime |-> 0]

getLanguageComplexity(languages) ==
    LET complexityOf(lang) ==
            CASE lang = "TypeScript" -> Frac(9, 10)
              [] lang = "C++" -> Frac(95, 100)
              [] lang = "Java" -> Frac(8, 10)
              [] lang = "C#" -> Frac(8, 10)
              [] lang = "JavaScript" -> Frac(6, 10)
              [] lang = "Python" -> Frac(5, 10)
              [] lang = "Go" -> Frac(7, 10)
              [] lang = "Rust" -> Frac(9, 10)
              [] lang = "HTML" -> Frac(2, 10)
              [] lang = "CSS" -> Frac(3, 10)
              [] OTHER -> Frac(5, 10)
    IN  RDiv(RSumSeq([i \in 1..Len(languages) |-> complexityOf(languages[i])], 1),
             R(Len(languages)))

getProjectTypeComplexity(projectType) ==
    CASE projectType = "React" -> Frac(8, 10)
      [] projectType = "Angular" -> Frac(9, 10)
      [] projectType = "Vue.js" -> Frac(7, 10)
      [] projectType = "Next.js" -> Frac(8, 10)
      [] projectType = "TypeScript" -> Frac(7, 10)
      [] projectType = "Node.js" -> Frac(6, 10)
      [] projectType = "Python" -> Frac(5, 10)
      [] projectType = "Java" -> Frac(8, 10)
      [] OTHER -> Frac(5, 10)

ProjectAnalyzer_calculateComplexity(factors) ==
    LET c1 == RMin(Frac(factors.fileCount, 100), Frac(3, 10))
        c2 == RAdd(c1, RMin(Frac(factors.totalLines, 10000), Frac(2, 10)))
        c3 == RAdd(c2, RMul(getLanguageComplexity(factors.languages), Frac(25, 100)))
        c4 == RAdd(c3, RMul(getProjectTypeComplexity(factors.projectType), Frac(15, 100)))
        c5 == IF factors.hasDependencies THEN RAdd(c4, Frac(1, 10)) ELSE c4
    IN  RMin(c5, R(1))

\* the facts are the results of the seven concurrent sub-computations
performAnalysis(factors) ==
    [fileCount |-> factors.fileCount, totalLines |-> factors.totalLines,
     complexity |-> ProjectAnalyzer_calculateComplexity(factors),
     projectType |-> factors.projectType, languages |-> factors.languages,
     hasTests |-> factors.hasTests, hasDependencies |-> factors.hasDependencies,
     gitActivity |-> factors.gitActivity]

getDefaultMetrics ==
    [fileCount |-> 1, totalLines |-> 100, complexity |-> Frac(5, 10),
     projectType |-> "Unknown", languages |-> <<"Unknown">>,
     hasTests |-> FALSE, hasDependencies |-> FALSE, gitActivity |-> Frac(5, 10)]

\* a cache that is still valid when exactly 5 minutes old
CacheValidInclusive(pa, now) ==
    pa.cachedMetrics # Null /\ (now - pa.lastAnalysisTime) <= cacheValidityMs

\* lines 25-30: the cache is valid at time now
CacheValid(pa, now) ==
    pa.cachedMetrics # Null /\ (now - pa.lastAnalysisTime) < cacheValidityMs

(***************************************************************************)
(* DataStorage: the keys of context.globalState                            *)
(***************************************************************************)
MAX_HISTORY_ENTRIES == 1000

\* updateOk = FALSE: globalState.update throws or rejects, which is caught
saveQualityHistory(store, qualityHistory, updateOk) ==
    LET limitedHistory == SliceLast(qualityHistory, MAX_HISTORY_ENTRIES)
    IN  IF updateOk THEN [store EXCEPT !.qualityHistory = Some(limitedHistory)] ELSE store

loadQualityHistory(store) ==
    IF store.qualityHistory = Undefined THEN <<>> ELSE ValueOf(store.qualityHistory)

\* The four keys of a DataStorage.  getOk / updateOk = FALSE: the call of
\* globalState.get / update throws, and the method's catch block runs.
StorageKeys == {"qualityHistory", "userSettings", "modelData", "sessionData"}
EmptyStore == [key \in StorageKeys |-> Undefined]
MAX_SESSION_ENTRIES == 100

\* loadQualityHistory where get may throw (lines 66-76)
loadQualityHistoryFrom(store, getOk) ==
    IF getOk THEN loadQualityHistory(store) ELSE <<>>

DefaultUserSettings ==
    [qualityThreshold |-> 75, notificationThreshold |-> 50, enableAutoTracking |-> TRUE,
     enablePredictions |-> TRUE, analysisDepth |-> "thorough", lastSyncTime |-> 0]

\* { ...defaults, ...settings }
Spread(defaults, settings) ==
    [key \in DOMAIN defaults \cup DOMAIN settings |->
        IF key \in DOMAIN settings THEN settings[key] ELSE defaults[key]]

saveUserSettings(store, settings, updateOk) ==
    IF updateOk THEN [store EXCEPT !.userSettings = Some(settings)] ELSE store

\* load that returns a default threshold of 70
loadUserSettingsSeventy(store, getOk) ==
    IF getOk /\ store.userSettings # Undefined
    THEN Spread([DefaultUserSettings EXCEPT !.qualityThreshold = 70],
                ValueOf(store.userSettings))
    ELSE [DefaultUserSettings EXCEPT !.qualityThreshold = 70]

loadUserSettings(store, getOk) ==
    IF getOk /\ store.userSettings # Undefined
    THEN Spread(DefaultUserSettings, ValueOf(store.userSettings))
    ELSE DefaultUserSettings

saveModelData(store, modelData, updateOk) ==
    IF updateOk THEN [store EXCEPT !.modelData = Some(modelData)] ELSE store

\* the ModelData, or Null
loadModelData(store, getOk) ==
    IF getOk /\ store.modelData # Undefined THEN store.modelData ELSE Null

saveSessionData(store, sessionData, updateOk) ==
    LET limitedSessions == SliceLast(sessionData, MAX_SESSION_ENTRIES)
    IN  IF updateOk THEN [store EXCEPT !.sessionData = Some(limitedSessions)] ELSE store

loadSessionData(store, getOk) ==
    IF getOk /\ store.sessionData # Undefined THEN ValueOf(store.sessionData) ELSE <<>>

\* the updates are awaited one after the other; the first that throws ends
\* the try block
clearAllData(store, firstFailing) ==
    LET order == <<"qualityHistory", "userSettings", "modelData", "sessionData">>
    IN  [key \in DOMAIN store |->
            IF \E i \in 1..4 : order[i] = key /\ i < firstFailing
            THEN Undefined ELSE store[key]]

EmptyModelData ==
    [regressionWeights |-> <<>>, regressionBias |-> 0, timeSeriesData |-> Null,
     lastTrainingTime |-> 0, trainingDataCount |-> 0]

\* gets: for each key, whether get succeeds
exportAllData(store, gets) ==
    LET modelData == loadModelData(store, gets["modelData"])
    IN  [qualityHistory |-> loadQualityHistoryFrom(store, gets["qualityHistory"]),
         userSettings |-> loadUserSettings(store, gets["userSettings"]),
         modelData |-> IF modelData = Null THEN EmptyModelData ELSE ValueOf(modelData),
         sessionData |-> loadSessionData(store, gets["sessionData"])]

\* updates: for each key, whether update succeeds
importAllData(store, data, updates) ==
    LET s1 == saveQualityHistory(store, data.qualityHistory, updates["qualityHistory"])
        s2 == saveUserSettings(s1, data.userSettings, updates["userSettings"])
        s3 == saveModelData(s2, data.modelData, updates["modelData"])
    IN  saveSessionData(s3, data.sessionData, updates["sessionData"])

(***************************************************************************)
(* AnalysisEngine                                                          *)
(***************************************************************************)
MaxQualityHistory == 1000
RetrainAbove == 10

getRecentQuality(history, now) ==
    LET dayAgo == now - DayMs
        Recent(pattern) == pattern.timestamp > dayAgo
    IN  SelectSeq(history, Recent)

calculateQualityScore(recentQuality) ==
    IF Len(recentQuality) = 0 THEN 75 ELSE RRound(Mean(recentQuality, ScoreOf))

\* the bug risk without the regression's bug probability
calculateBugRiskBaseOnly(riskFactors, complexity) ==
    LET baseRisk == RMul(complexity, R(30))
    IN  RMin(R(100), RMax(R(0), baseRisk))

calculateBugRisk(riskFactors, complexity) ==
    LET baseRisk == RMul(complexity, R(30))
        factorRisk == riskFactors.bugProbability
    IN  RMin(R(100), RMax(R(0), RAdd(baseRisk, factorRisk)))

calculateMaintainability(projectMetrics, recentQuality) ==
    LET complexityFactor == RMul(RSub(R(1), projectMetrics.complexity), R(10))
        qualityFactor == Frac(calculateQualityScore(recentQuality), 10)
    IN  RRound(RMin(R(10), RMax(R(1), RDiv(RAdd(complexityFactor, qualityFactor), R(2)))))

\* a penalty of complexity * 10
calculatePerformancePenaltyTen(projectMetrics, recentQuality) ==
    LET baseScore == R(8)
        complexityPenalty == RMul(projectMetrics.complexity, R(10))
    IN  RRound(RMin(R(10), RMax(R(1), RSub(baseScore, complexityPenalty))))

calculatePerformance(projectMetrics, recentQuality) ==
    LET baseScore == R(8)
        complexityPenalty == RMul(projectMetrics.complexity, R(3))
    IN  RRound(RMin(R(10), RMax(R(1), RSub(baseScore, complexityPenalty))))

AnalysisEngine_calculateConfidence(dataPoints) ==
    IF dataPoints = 0 THEN Frac(5, 10)
    ELSE IF dataPoints < 10 THEN Frac(6, 10)
    ELSE IF dataPoints < 50 THEN Frac(8, 10)
    ELSE Frac(95, 100)

generateQualityRecommendations(recentQuality, projectMetrics, bugRisk) ==
    (IF RLt(R(50), bugRisk)
       THEN <<"High bug risk detected - consider refactoring complex functions">> ELSE <<>>)
    \o (IF RLt(Frac(7, 10), projectMetrics.complexity)
       THEN <<"Project complexity is high - break down large components">> ELSE <<>>)
    \o (IF \E i \in 1..Len(recentQuality) : recentQuality[i].issuesFound > 5
       THEN <<"Multiple issues found - implement stricter code review process">> ELSE <<>>)
    \o <<"Maintain consistent coding standards", "Add comprehensive unit tests">>

\* lines 56-98: what generateAnalysis computes once the project metrics are there
AnalysisResult(recentQuality, projectMetrics, regression, timeSeries, history, now, dot) ==
    LET overallQuality == calculateQualityScore(recentQuality)
        regressionAnalysis ==
            LinearRegressionModel_predict(regression, recentQuality, projectMetrics, now, dot)
        trendAnalysis == TimeSeriesModel_predict(timeSeries, history, now)
        bugRisk == calculateBugRisk(regressionAnalysis.riskFactors, projectMetrics.complexity)
    IN  [overallQuality |-> overallQuality,
         bugRisk |-> bugRisk,
         maintainabilityScore |-> calculateMaintainability(projectMetrics, recentQuality),
         performanceScore |-> calculatePerformance(projectMetrics, recentQuality),
         confidence |-> AnalysisEngine_calculateConfidence(Len(recentQuality)),
         recommendations |->
             generateQualityRecommendations(recentQuality, projectMetrics, bugRisk)]

\* push without the cap
AppendUncapped(qualityHistory, pattern) == Append(qualityHistory, pattern)

\* push, then keep the first 1000 (slice(0, 1000) for slice(-1000))
AppendKeepOldest(qualityHistory, pattern) ==
    LET pushed == Append(qualityHistory, pattern)
    IN  IF Len(pushed) > MaxQualityHistory
        THEN SubSeq(pushed, 1, MaxQualityHistory)
        ELSE pushed

\* lines 105-110: push, then keep the last 1000
AppendCapped(qualityHistory, pattern) ==
    LET pushed == Append(qualityHistory, pattern)
    IN  IF Len(pushed) > MaxQualityHistory
        THEN SliceLast(pushed, MaxQualityHistory)
        ELSE pushed

\* updateModels retraining from length 10 on (>= for >)
updateModelsFromTen(regression, timeSeries, qualityHistory) ==
    IF Len(qualityHistory) >= RetrainAbove
    THEN [regressionModel |-> LinearRegressionModel_train(regression, qualityHistory),
          timeSeriesModel |-> TimeSeriesModel_train(timeSeries, qualityHistory),
          calls |-> <<[model |-> "regression", history |-> qualityHistory],
                      [model |-> "timeSeries", history |-> qualityHistory]>>]
    ELSE [regressionModel |-> regression, timeSeriesModel |-> timeSeries, calls |-> <<>>]

\* the models after updateModels, and the train calls it made, in order
updateModels(regression, timeSeries, qualityHistory) ==
    IF Len(qualityHistory) > RetrainAbove
    THEN [regressionModel |-> LinearRegressionModel_train(regression, qualityHistory),
          timeSeriesModel |-> TimeSeriesModel_train(timeSeries, qualityHistory),
          calls |-> <<[model |-> "regression", history |-> qualityHistory],
                      [model |-> "timeSeries", history |-> qualityHistory]>>]
    ELSE [regressionModel |-> regression, timeSeriesModel |-> timeSeries, calls |-> <<>>]

(***************************************************************************)
(* The document scorer (analyzeCodeQuality and its helpers)                *)
(*                                                                         *)
(* A document is what the scorer's regular expressions and line splitting  *)
(* find in its text: matches, the number of matches of each of the six     *)
(* complexity patterns; lines, the lines of the text, each a sequence of   *)
(* characters; extension; and functions, the line count of each match of   *)
(* the extension's function pattern.                                       *)
(***************************************************************************)
IsSpace(ch) == ch = " "

RECURSIVE TrimStart(_)
TrimStart(line) ==
    IF Len(line) > 0 /\ IsSpace(line[1]) THEN TrimStart(Tail(line)) ELSE line

RECURSIVE TrimEnd(_)
TrimEnd(line) ==
    IF Len(line) > 0 /\ IsSpace(line[Len(line)])
    THEN TrimEnd(SubSeq(line, 1, Len(line) - 1))
    ELSE line

\* String.prototype.trim
Trim(line) == TrimEnd(TrimStart(line))

\* the complexity with the catch pattern left out
calculateComplexityNoCatch(matches) ==
    LET complexity == 1 + matches["if"] + matches["for"] + matches["while"]
                        + matches["switch"] + matches["ternary"]
    IN  RMin(R(10), Frac(complexity, 10))

calculateComplexity(matches) ==
    LET complexity == 1 + matches["if"] + matches["for"] + matches["while"]
                        + matches["switch"] + matches["catch"] + matches["ternary"]
    IN  RMin(R(10), Frac(complexity, 10))

\* lineMap.get(trimmed) || 0
CountIn(lineMap, trimmed) ==
    IF trimmed \in DOMAIN lineMap THEN lineMap[trimmed] ELSE 0

\* the loop counting every repeat of a line (count >= 1 for count === 1)
RECURSIVE DuplicateLinesEveryRepeat(_, _, _, _)
DuplicateLinesEveryRepeat(lines, i, lineMap, duplicates) ==
    IF i > Len(lines) THEN duplicates
    ELSE LET trimmed == Trim(lines[i])
         IN  IF Len(trimmed) > 10
             THEN LET count == CountIn(lineMap, trimmed)
                      lineMap2 == [t \in DOMAIN lineMap \cup {trimmed} |->
                                     IF t = trimmed THEN count + 1 ELSE lineMap[t]]
                  IN  DuplicateLinesEveryRepeat(lines, i + 1, lineMap2,
                                                IF count >= 1 THEN duplicates + 1
                                                ELSE duplicates)
             ELSE DuplicateLinesEveryRepeat(lines, i + 1, lineMap, duplicates)

RECURSIVE DuplicateLinesFrom(_, _, _, _)
DuplicateLinesFrom(lines, i, lineMap, duplicates) ==
    IF i > Len(lines) THEN duplicates
    ELSE LET trimmed == Trim(lines[i])
         IN  IF Len(trimmed) > 10
             THEN LET count == CountIn(lineMap, trimmed)
                      lineMap2 == [t \in DOMAIN lineMap \cup {trimmed} |->
                                     IF t = trimmed THEN count + 1 ELSE lineMap[t]]
                  IN  DuplicateLinesFrom(lines, i + 1, lineMap2,
                                         IF count = 1 THEN duplicates + 1 ELSE duplicates)
             ELSE DuplicateLinesFrom(lines, i + 1, lineMap, duplicates)

findDuplicateLines(lines) == DuplicateLinesFrom(lines, 1, <<>>, 0)

\* CodePatternDetector.findDuplicatePatterns, on the lines of its text
findDuplicatePatterns(lines) == DuplicateLinesFrom(lines, 1, <<>>, 0)

findLongFunctions(functions, extension) ==
    IF extension \notin {"js", "ts", "py"} THEN 0
    ELSE Cardinality({i \in 1..Len(functions) : functions[i] > 20})

\* the score with the weights of duplicateLines and longFunctions exchanged
QualityScoreSwapped(complexity, duplicateLines, longFunctions) ==
    RMax(R(0), RMin(R(100),
        RSub(RSub(RSub(R(100), RMul(complexity, R(10))), R(duplicateLines * 15)),
             R(longFunctions * 5))))

\* lines 259-261
QualityScoreOf(complexity, duplicateLines, longFunctions) ==
    RMax(R(0), RMin(R(100),
        RSub(RSub(RSub(R(100), RMul(complexity, R(10))), R(duplicateLines * 5)),
             R(longFunctions * 15))))

\* the bug risk with the duplicate lines subtracted
BugRiskMinusDuplicates(complexity, duplicateLines, longFunctions) ==
    RMin(R(100), RAdd(RSub(RMul(complexity, R(15)), R(duplicateLines * 3)),
                      R(longFunctions * 20)))

\* line 263
BugRiskOf(complexity, duplicateLines, longFunctions) ==
    RMin(R(100), RAdd(RAdd(RMul(complexity, R(15)), R(duplicateLines * 3)),
                      R(longFunctions * 20)))

analyzeCodeQuality(doc) ==
    LET NonEmpty(line) == Len(Trim(line)) > 0
        linesOfCode == Len(SelectSeq(doc.lines, NonEmpty))
        complexity == calculateComplexity(doc.matches)
        duplicateLines == findDuplicateLines(doc.lines)
        longFunctions == findLongFunctions(doc.functions, doc.extension)
        qualityScore == QualityScoreOf(complexity, duplicateLines, longFunctions)
        bugRisk == BugRiskOf(complexity, duplicateLines, longFunctions)
        maintainability == RMax(R(1), RMin(R(10), RSub(R(10), RMul(complexity, R(2)))))
        performance == RMax(R(1), RMin(R(10), R(10 - longFunctions * 3)))
    IN  [qualityScore |-> RRound(qualityScore),
         bugRisk |-> bugRisk,
         maintainability |-> maintainability,
         performance |-> performance,
         linesOfCode |-> linesOfCode,
         complexity |-> complexity,
         issues |-> (IF duplicateLines > 0 THEN <<"Code duplication detected">> ELSE <<>>)
                    \o (IF longFunctions > 0 THEN <<"Long functions found">> ELSE <<>>)
                    \o (IF RLt(R(5), complexity) THEN <<"High complexity detected">> ELSE <<>>)]

(***************************************************************************)
(* QualityTracker                                                          *)
(***************************************************************************)
NoActivity ==
    [complexityIncreases |-> 0, duplicateCodeDetected |-> 0, longFunctionsAdded |-> FALSE,
     filesAnalyzed |-> 0, issuesFound |-> 0]

QualityTracker_new(t) ==
    [isTracking |-> FALSE, sessionStart |-> t, recentActivity |-> NoActivity]

startTracking(qt, t) == [qt EXCEPT !.isTracking = TRUE, !.sessionStart = t]

stopTracking(qt) == [qt EXCEPT !.isTracking = FALSE]

recordQualityAnalysis(qt, qualityScore, issuesFound) ==
    IF ~qt.isTracking THEN qt
    ELSE [qt EXCEPT !.recentActivity.filesAnalyzed = @ + 1,
                    !.recentActivity.issuesFound = @ + issuesFound,
                    !.recentActivity.complexityIncreases =
                        IF qualityScore < 50 THEN @ + 1 ELSE @]

\* recordDuplicateCode without the test of isTracking
recordDuplicateCodeUntracked(qt, count) ==
    [qt EXCEPT !.recentActivity.duplicateCodeDetected = @ + count]

recordDuplicateCode(qt, count) ==
    IF ~qt.isTracking THEN qt
    ELSE [qt EXCEPT !.recentActivity.duplicateCodeDetected = @ + count]

recordLongFunction(qt) ==
    IF ~qt.isTracking THEN qt
    ELSE [qt EXCEPT !.recentActivity.longFunctionsAdded = TRUE]

resetSession(qt, t) == [qt EXCEPT !.recentActivity = NoActivity, !.sessionStart = t]

getSessionDuration(qt, t) == (t - qt.sessionStart) \div MinuteMs

generateQualityPattern(qt, projectType, complexity, t) ==
    Pattern(t, IF 100 - qt.recentActivity.issuesFound * 10 > 0
               THEN 100 - qt.recentActivity.issuesFound * 10 ELSE 0,
            getSessionDuration(qt, t),
            qt.recentActivity.filesAnalyzed * 50, qt.recentActivity.filesAnalyzed,
            qt.recentActivity.issuesFound, projectType, complexity)

(***************************************************************************)
(* The analyze endpoint of the backend and its usage tracking.  limit: the *)
(* analysis_limit of the user's plan; usage: analyses_used of the user's   *)
(* usage_tracking row of the month, Null without a row; requests: the      *)
(* analyze requests in flight; performed, refused: the analyses made and   *)
(* the requests answered 429 this month.                                   *)
(***************************************************************************)
FreeLimit == 20
ProLimit == 1000
Unlimited == -1

Backend_new(limit, usage) ==
    [limit |-> limit, usage |-> usage,
     performed |-> IF usage = Null THEN 0 ELSE ValueOf(usage),
     refused |-> 0, requests |-> <<>>, arrived |-> 0]

\* lines 84-98; the free plan's branch (67-82) is the same with limit 20
checkUsageLimit(limit, usage) ==
    [canAnalyze |-> limit = -1 \/ usage = Null \/ ValueOf(usage) < limit,
     usage |-> IF usage = Null THEN 0 ELSE ValueOf(usage),
     limit |-> limit]

\* INSERT ... ON CONFLICT DO UPDATE SET analyses_used = analyses_used + 1
increment_usage(usage) ==
    IF usage = Null THEN Some(1) ELSE Some(ValueOf(usage) + 1)

(***************************************************************************)
(* The transaction helper of the backend's database module (part_002       *)
(* lines 40-53).  A call is a record: pc, the await it stands at; client,  *)
(* Null until pool.connect resolved; issued, the statements sent on the    *)
(* client; released, how often client.release ran; callback, what the      *)
(* callback did; error, what the catch block caught; settled, what the     *)
(* call will hand to its caller and outcome, what it handed; threw, the    *)
(* steps that threw; finished, the calls made before.                      *)
(***************************************************************************)
Returned(value) == [kind |-> "returned", value |-> value]
Thrown(error) == [kind |-> "thrown", value |-> error]

Transaction_new(finished) ==
    [pc |-> "connect", client |-> Null, issued |-> <<>>, released |-> 0,
     callback |-> Null, error |-> Null, settled |-> Null, outcome |-> Null,
     threw |-> <<>>, finished |-> finished]

\* line 41: const client = await pool.connect()
transaction_connect(tx, ok) ==
    IF ok THEN [tx EXCEPT !.pc = "BEGIN", !.client = Some("client")]
    ELSE [tx EXCEPT !.pc = "done", !.outcome = Some(Thrown("connect")),
                    !.threw = Append(@, "connect")]

\* line 43: await client.query('BEGIN')
transaction_begin(tx, ok) ==
    IF ok THEN [tx EXCEPT !.pc = "callback", !.issued = Append(@, "BEGIN")]
    ELSE [tx EXCEPT !.pc = "ROLLBACK", !.issued = Append(@, "BEGIN"),
                    !.error = Some("BEGIN"), !.threw = Append(@, "BEGIN")]

\* line 44: const result = await callback(client); statements: what the
\* callback sent on the client
transaction_callback(tx, statements, result) ==
    IF result.kind = "returned"
    THEN [tx EXCEPT !.pc = "COMMIT", !.issued = @ \o statements,
                    !.callback = Some(result)]
    ELSE [tx EXCEPT !.pc = "ROLLBACK", !.issued = @ \o statements,
                    !.callback = Some(result), !.error = Some(result.value),
                    !.threw = Append(@, "callback")]

\* lines 45-46: await client.query('COMMIT'); return result
transaction_commit(tx, ok) ==
    IF ok THEN [tx EXCEPT !.pc = "finally", !.issued = Append(@, "COMMIT"),
                          !.settled = tx.callback]
    ELSE [tx EXCEPT !.pc = "ROLLBACK", !.issued = Append(@, "COMMIT"),
                    !.error = Some("COMMIT"), !.threw = Append(@, "COMMIT")]

\* lines 47-49: await client.query('ROLLBACK'); throw error
transaction_catch(tx, ok) ==
    IF ok THEN [tx EXCEPT !.pc = "finally", !.issued = Append(@, "ROLLBACK"),
                          !.settled = Some(Thrown(ValueOf(tx.error)))]
    ELSE [tx EXCEPT !.pc = "finally", !.issued = Append(@, "ROLLBACK"),
                    !.settled = Some(Thrown("ROLLBACK")),
                    !.threw = Append(@, "ROLLBACK")]

\* a finally block that is skipped when the catch block threw
transaction_finallyUnlessCatchThrew(tx) ==
    [tx EXCEPT !.pc = "done",
               !.released = IF ValueOf(tx.settled) = Thrown("ROLLBACK") THEN @ ELSE @ + 1,
               !.outcome = tx.settled]

\* lines 50-52: client.release(), then the call settles
transaction_finally(tx) ==
    [tx EXCEPT !.pc = "done", !.released = @ + 1, !.outcome = tx.settled]

(***************************************************************************)
(* State                                                                   *)
(***************************************************************************)
VARIABLES
    qualityHistory,      \* AnalysisEngine.qualityHistory
    regressionModel,     \* LinearRegressionModel: weights, bias, isTrained
    timeSeriesModel,     \* TimeSeriesModel: trendCoefficient, seasonalFactors, isInitialized
    projectAnalyzer,     \* ProjectAnalyzer: cachedMetrics, lastAnalysisTime
    globalState,         \* context.globalState, by key
    loadHistoricalData,  \* the constructor's load: awaiting its result, or done
    pendingAnalyses,     \* generateAnalysis calls awaiting performAnalysis
    now,                 \* Date.now()
    workspace,           \* what a traversal of the workspace finds
    lastAnalysis,        \* what the last generateAnalysis that returned was given and returned
    recorded,            \* the patterns passed to recordQuality, in call order (in
                         \* SpecFifo the calls of earlier sessions come first)
    lastRecord,          \* what the last recordQuality call did
    calls,               \* the last two calls made on a model object used directly
    document,            \* the document analyzeCodeQuality was last given
    quality,             \* what analyzeCodeQuality returned for it
    tracker,             \* QualityTracker: isTracking, sessionStart, recentActivity
    backend              \* the user's plan and usage row, and the analyze requests
                         \* in flight

vars == <<qualityHistory, regressionModel, timeSeriesModel, projectAnalyzer,
          globalState, loadHistoricalData, pendingAnalyses, now, workspace,
          lastAnalysis, recorded, lastRecord, calls, document, quality, tracker,
          backend>>

scorerVars == <<document, quality>>

engineVars == <<qualityHistory, projectAnalyzer, globalState, loadHistoricalData,
                pendingAnalyses, now, workspace, lastAnalysis, recorded, lastRecord>>

(***************************************************************************)
(* Bounds and inputs                                                       *)
(***************************************************************************)
MaxRecords == 2        \* recordQuality calls of one session
MaxTicks == 1          \* clock steps
MaxPending == 1        \* generateAnalysis calls awaiting the traversal at once
MaxFifoCalls == 12     \* recordQuality calls of one session of the run of SpecFifo

StartTime == 3 * DayMs
TickMs == 16 * HourMs

\* a stored sample, i-th of n, one every gap milliseconds up to StartTime
StoredPattern(i, n, gap) ==
    Pattern(StartTime - (n - i + 1) * gap, 60 + ((7 * i) % 35), 20 + (i % 60),
            50 * (1 + (i % 3)), 1 + (i % 3), i % 4,
            IF i % 2 = 0 THEN "TypeScript" ELSE "Python", Frac(2 + (i % 5), 10))

StoredHistory(n) == [i \in 1..n |-> StoredPattern(i, n, 3 * HourMs)]
LongHistory(n) == [i \in 1..n |-> StoredPattern(i, n, MinuteMs)]

\* the patterns a caller records at time t
NewPatterns(t) ==
    {Pattern(t, 90, 30, 100, 2, 0, "TypeScript", Frac(3, 10)),
     Pattern(t, 40, 45, 250, 5, 6, "Unknown", Frac(8, 10))}

ProjectFacts ==
    {[fileCount |-> 12, totalLines |-> 800, projectType |-> "Python",
      languages |-> <<"Python", "HTML">>, hasTests |-> TRUE, hasDependencies |-> TRUE,
      gitActivity |-> Frac(3, 10)],
     [fileCount |-> 250, totalLines |-> 40000, projectType |-> "Angular",
      languages |-> <<"C++", "TypeScript">>, hasTests |-> TRUE, hasDependencies |-> TRUE,
      gitActivity |-> R(1)]}

Workspaces ==
    {Null} \cup {Some(w) : w \in ProjectFacts}

\* values of bias + weights . features, where predict reads them
DotProducts == {R(-40), Frac(125, 2), R(260)}
DotsFor(m, recentQuality) ==
    IF m.isTrained /\ Len(recentQuality) > 0 THEN DotProducts ELSE {R(0)}


(***************************************************************************)
(* Initial states: the engine just constructed (lines 36-47).  The         *)
(* constructor has called loadHistoricalData, which has read the stored    *)
(* history and awaits it; qualityHistory is still [].                      *)
(***************************************************************************)
\* earlier: the recordQuality calls of earlier sessions that filled the store
Constructed(stored, earlier) ==
    /\ globalState = [qualityHistory |-> stored]
    /\ loadHistoricalData =
          [pc |-> "await", history |-> loadQualityHistory([qualityHistory |-> stored])]
    /\ qualityHistory = <<>>
    /\ regressionModel = LinearRegressionModel_new
    /\ timeSeriesModel = TimeSeriesModel_new
    /\ projectAnalyzer = ProjectAnalyzer_new
    /\ pendingAnalyses = <<>>
    /\ now = StartTime
    /\ lastAnalysis = Null
    /\ recorded = earlier
    /\ lastRecord = Null
    /\ calls = <<>>
    /\ document = Null
    /\ quality = Null
    /\ tracker = QualityTracker_new(StartTime)
    /\ backend = Backend_new(FreeLimit, Null)

InitWith(stores, workspaces) ==
    /\ \E stored \in stores : Constructed(stored, <<>>)
    /\ workspace \in workspaces

Init == InitWith({Undefined, Some(StoredHistory(9))}, Workspaces)

(***************************************************************************)
(* AnalysisEngine actions                                                  *)
(***************************************************************************)
\* loadHistoricalData resumes after its await (lines 307-310)
LoadHistoricalDataResume ==
    /\ loadHistoricalData.pc = "await"
    /\ qualityHistory' = loadHistoricalData.history
    /\ loadHistoricalData' = [loadHistoricalData EXCEPT !.pc = "done"]
    /\ UNCHANGED <<regressionModel, timeSeriesModel, projectAnalyzer, globalState,
                   pendingAnalyses, now, workspace, lastAnalysis, recorded,
                   lastRecord, calls, scorerVars, tracker, backend>>

\* recordQuality(pattern) (lines 104-117)
recordQuality(pattern, updateOk) ==
    LET capped == AppendCapped(qualityHistory, pattern)
        updated == updateModels(regressionModel, timeSeriesModel, capped)
    IN  /\ qualityHistory' = capped
        /\ globalState' = saveQualityHistory(globalState, capped, updateOk)
        /\ regressionModel' = updated.regressionModel
        /\ timeSeriesModel' = updated.timeSeriesModel
        /\ recorded' = Append(recorded, pattern)
        /\ lastRecord' = Some([pattern |-> pattern, handed |-> capped, calls |-> updated.calls])
        /\ UNCHANGED <<projectAnalyzer, loadHistoricalData, pendingAnalyses, now,
                       workspace, lastAnalysis, calls, scorerVars, tracker, backend>>

\* a caller records a pattern; outcomes: whether globalState.update succeeds
RecordQuality(outcomes) ==
    /\ Len(recorded) < MaxRecords
    /\ \E pattern \in NewPatterns(now), updateOk \in outcomes :
          recordQuality(pattern, updateOk)

\* the promise analyzeCurrentProject returns is settled at once (lines 25-36):
\* the cached metrics while the cache is valid, the defaults without a
\* workspace folder; Null: performAnalysis has to run first
SettledMetricsIgnoringCache(pa, ws, t) ==
    IF CacheValid(pa, t) \/ ws = Null THEN Some(getDefaultMetrics) ELSE Null

SettledMetrics(pa, ws, t) ==
    IF CacheValid(pa, t) THEN pa.cachedMetrics
    ELSE IF ws = Null THEN Some(getDefaultMetrics)
    ELSE Null

\* generateAnalysis up to its await (lines 53-54); history is the engine's
\* history at the call
GenerateAnalysisBegin ==
    /\ Len(pendingAnalyses) < MaxPending
    /\ pendingAnalyses' = Append(pendingAnalyses,
           [recentQuality |-> getRecentQuality(qualityHistory, now),
            now |-> now,
            history |-> qualityHistory,
            metrics |-> SettledMetrics(projectAnalyzer, workspace, now)])
    /\ UNCHANGED <<qualityHistory, regressionModel, timeSeriesModel, projectAnalyzer,
                   globalState, loadHistoricalData, now, workspace, lastAnalysis,
                   recorded, lastRecord, calls, scorerVars, tracker, backend>>

\* continuations that run before any timer or I/O completion does
MicrotasksQueued ==
    \/ loadHistoricalData.pc = "await"
    \/ \E i \in 1..Len(pendingAnalyses) : pendingAnalyses[i].metrics # Null

\* the awaited metrics arrive (performAnalysis settles, lines 40-47, for a
\* call that waits for the traversal) and generateAnalysis runs on (56-98)
GenerateAnalysisEnd ==
    /\ Len(pendingAnalyses) > 0
    /\ \E i \in 1..Len(pendingAnalyses), throws \in BOOLEAN :
        \E dot \in DotsFor(regressionModel, pendingAnalyses[i].recentQuality) :
          LET call == pendingAnalyses[i]
              traversal == call.metrics = Null
              projectMetrics == IF ~traversal THEN ValueOf(call.metrics)
                                ELSE IF throws THEN getDefaultMetrics
                                ELSE performAnalysis(ValueOf(workspace))
          IN  /\ traversal => ~MicrotasksQueued
              /\ ~traversal => ~throws
              /\ projectAnalyzer' =
                     IF traversal /\ ~throws
                     THEN [cachedMetrics |-> Some(projectMetrics),
                           lastAnalysisTime |-> call.now]
                     ELSE projectAnalyzer
              /\ lastAnalysis' =
                     Some([result |-> AnalysisResult(call.recentQuality, projectMetrics,
                                                     regressionModel, timeSeriesModel,
                                                     qualityHistory, now, dot),
                           history |-> call.history,
                           projectMetrics |-> projectMetrics,
                           regressionAnalysis |->
                               LinearRegressionModel_predict(regressionModel,
                                   call.recentQuality, projectMetrics, now, dot),
                           recentQuality |-> call.recentQuality,
                           trained |-> regressionModel.isTrained])
              /\ pendingAnalyses' = [j \in 1..(Len(pendingAnalyses) - 1) |->
                                        IF j < i THEN pendingAnalyses[j]
                                        ELSE pendingAnalyses[j + 1]]
    /\ UNCHANGED <<qualityHistory, regressionModel, timeSeriesModel, globalState,
                   loadHistoricalData, now, workspace, recorded, lastRecord, calls, scorerVars, tracker, backend>>

\* time passes
Tick ==
    /\ now < StartTime + MaxTicks * TickMs
    /\ now' = now + TickMs
    /\ UNCHANGED <<qualityHistory, regressionModel, timeSeriesModel, projectAnalyzer,
                   globalState, loadHistoricalData, pendingAnalyses, workspace,
                   lastAnalysis, recorded, lastRecord, calls, scorerVars, tracker, backend>>

Next ==
    \/ LoadHistoricalDataResume
    \/ RecordQuality({TRUE})
    \/ GenerateAnalysisBegin
    \/ GenerateAnalysisEnd

Spec == Init /\ [][Next]_vars

\* the same engine while time passes
NextClock == Next \/ Tick

SpecClock == Init /\ [][NextClock]_vars

(***************************************************************************)
(* SpecHistory: recordQuality on an engine that loads a history at the     *)
(* cap, over a store whose updates may fail                                *)
(***************************************************************************)
InitHistory ==
    InitWith({Some(LongHistory(998)), Some(LongHistory(999)), Some(LongHistory(1000))}, {Null})

NextHistory ==
    \/ LoadHistoricalDataResume
    \/ RecordQuality(BOOLEAN)

SpecHistory == InitHistory /\ [][NextHistory]_vars

(***************************************************************************)
(* SpecFifo: recordQuality calls that all follow one another from an empty *)
(* history, the k-th recording FifoPattern(k).  The calls may span          *)
(* sessions: the engine is constructed over the store that the calls of    *)
(* the earlier sessions left (none, or 990 to 1000 of them, all saved),    *)
(* and recorded starts with those.                                         *)
(***************************************************************************)
FifoPattern(k) ==
    Pattern(StartTime + k * MinuteMs, 55 + ((3 * k) % 41), k % 90, 50 * (k % 7),
            k % 7, k % 4, IF k % 3 = 0 THEN "Go" ELSE "TypeScript", Frac(k % 11, 10))

FifoHistory(k) == [i \in 1..k |-> FifoPattern(i)]

EarlierCalls == {0} \cup (990..1000)

InitFifo ==
    /\ \E k \in EarlierCalls :
          Constructed(IF k = 0 THEN Undefined ELSE Some(FifoHistory(k)), FifoHistory(k))
    /\ workspace = Null

\* the next call of the run, once the load has resumed
RecordNextQuality ==
    /\ loadHistoricalData.pc = "done"
    /\ Len(recorded) - Len(loadHistoricalData.history) < MaxFifoCalls
    /\ recordQuality(FifoPattern(Len(recorded) + 1), TRUE)

NextFifo == LoadHistoricalDataResume \/ RecordNextQuality

SpecFifo == InitFifo /\ [][NextFifo]_vars

(***************************************************************************)
(* SpecSession: one engine session from construction on: the startup load  *)
(* of a stored history of 0, 7, 9 or 12 samples, up to MaxSessionRecords   *)
(* recordQuality calls, and generateAnalysis calls                         *)
(***************************************************************************)
MaxSessionRecords == 11

InitSession ==
    InitWith({Undefined, Some(StoredHistory(7)), Some(StoredHistory(9)),
              Some(StoredHistory(12))}, {Null})

SessionPattern(t) == Pattern(t, 90, 30, 100, 2, 1, "TypeScript", Frac(3, 10))

RecordSessionQuality ==
    /\ Len(recorded) < MaxSessionRecords
    /\ recordQuality(SessionPattern(now), TRUE)

NextSession ==
    \/ LoadHistoricalDataResume
    \/ RecordSessionQuality
    \/ GenerateAnalysisBegin
    \/ GenerateAnalysisEnd

SpecSession == InitSession /\ [][NextSession]_vars

(***************************************************************************)
(* SpecScorer: analyzeCodeQuality on documents                             *)
(***************************************************************************)
Chars(ch, n) == [i \in 1..n |-> ch]
Padded(line) == <<" ", " ">> \o line \o <<" ">>

Matches(ifs, fors, ternaries) ==
    [if |-> ifs, for |-> fors, while |-> 0, switch |-> 0, catch |-> 0,
     ternary |-> ternaries]

MatchInputs ==
    {Matches(0, 0, 0), Matches(3, 1, 0), Matches(5, 2, 2), Matches(30, 20, 7),
     Matches(60, 30, 9), Matches(90, 30, 10)}

LineInputs ==
    {<<>>,
     <<Chars("a", 11), Chars("a", 10), Chars(" ", 2), Chars("a", 10)>>,
     <<Chars("a", 11), Padded(Chars("a", 11)), Chars("a", 11), Chars("b", 12)>>,
     <<Chars("a", 11), Chars("b", 12), Chars("b", 12), Chars("a", 11), <<>>>>,
     <<Chars("c", 13), Chars("a", 11), Chars("b", 12), Chars("c", 13),
       Chars("b", 12), Padded(Chars("a", 11)), Chars("c", 13)>>}

FunctionInputs == {<<>>, <<20, 3>>, <<21, 5>>, <<25, 30, 8, 21>>}

Documents ==
    {[matches |-> m, lines |-> l, extension |-> e, functions |-> f] :
        m \in MatchInputs, l \in LineInputs, e \in {"ts", "md"}, f \in FunctionInputs}

InitScorer == InitWith({Undefined}, {Null})

AnalyzeCodeQuality ==
    /\ \E doc \in Documents :
          /\ document' = Some(doc)
          /\ quality' = Some(analyzeCodeQuality(doc))
    /\ UNCHANGED <<qualityHistory, regressionModel, timeSeriesModel, projectAnalyzer,
                   globalState, loadHistoricalData, pendingAnalyses, now, workspace,
                   lastAnalysis, recorded, lastRecord, calls, tracker, backend>>

SpecScorer == InitScorer /\ [][AnalyzeCodeQuality]_vars

(***************************************************************************)
(* SpecRegression, SpecTimeSeries: a model object used directly, with any  *)
(* sequence of train and predict calls                                     *)
(***************************************************************************)
\* the i-th of n samples, one a day, whose scores follow the shape
Score(shape, i, n) ==
    CASE shape = "rise" -> 60 + RRound(Frac(30 * (i - 1), IF n > 1 THEN n - 1 ELSE 1))
      [] shape = "fall" -> 95 - 3 * i
      [] shape = "flat" -> 75
      [] shape = "two" -> 50 + 2 * i
      [] shape = "overTwo" -> 50 + 2 * i + (IF i = n THEN 1 ELSE 0)

ModelHistory(shape, n) ==
    [i \in 1..n |->
        Pattern((i - 1) * DayMs + 9 * HourMs, Score(shape, i, n), 30, 120, 2, i % 3,
                "TypeScript", Frac(4, 10))]

\* the call log after one more call on the object
Called(model, op, arg, before, out) ==
    SliceLast(Append(calls, [model |-> model, op |-> op, arg |-> arg,
                             before |-> before, out |-> out]), 2)

\* a run uses one of the two model objects
OnlyCallsOn(model) == \A i \in 1..Len(calls) : calls[i].model = model

InitModels == InitWith({Undefined}, {Null})

RegressionHistories == {ModelHistory("rise", n) : n \in {0, 3, 4, 5, 6, 11}}

LRTrain ==
    /\ OnlyCallsOn("regression")
    /\ \E h \in RegressionHistories :
          /\ regressionModel' = LinearRegressionModel_train(regressionModel, h)
          /\ calls' = Called("regression", "train", h, regressionModel, Null)
    /\ UNCHANGED <<timeSeriesModel, engineVars, scorerVars, tracker, backend>>

LRPredict ==
    /\ OnlyCallsOn("regression")
    /\ \E recentQuality \in {ModelHistory("rise", n) : n \in {0, 3, 6}},
          w \in ProjectFacts :
        \E dot \in DotsFor(regressionModel, recentQuality) :
          calls' = Called("regression", "predict", recentQuality, regressionModel,
                          Some(LinearRegressionModel_predict(
                                   regressionModel, recentQuality, performAnalysis(w),
                                   now, dot)))
    /\ UNCHANGED <<regressionModel, timeSeriesModel, engineVars, scorerVars, tracker, backend>>

NextRegression == LRTrain \/ LRPredict

SpecRegression == InitModels /\ [][NextRegression]_vars

TimeSeriesHistories ==
    {ModelHistory(shape, n) :
        shape \in {"rise", "fall", "flat", "two", "overTwo"}, n \in {0, 6, 7, 12}}

PredictHistories ==
    {ModelHistory("rise", 0), ModelHistory("flat", 3), ModelHistory("fall", 12),
     ModelHistory("rise", 12)}

TSTrain ==
    /\ OnlyCallsOn("timeSeries")
    /\ \E h \in TimeSeriesHistories :
          /\ timeSeriesModel' = TimeSeriesModel_train(timeSeriesModel, h)
          /\ calls' = Called("timeSeries", "train", h, timeSeriesModel, Null)
    /\ UNCHANGED <<regressionModel, engineVars, scorerVars, tracker, backend>>

TSPredict ==
    /\ OnlyCallsOn("timeSeries")
    /\ \E h \in PredictHistories :
          calls' = Called("timeSeries", "predict", h, timeSeriesModel,
                          Some(TimeSeriesModel_predict(timeSeriesModel, h, now)))
    /\ UNCHANGED <<regressionModel, timeSeriesModel, engineVars, scorerVars, tracker, backend>>

NextTimeSeries == TSTrain \/ TSPredict

SpecTimeSeries == InitModels /\ [][NextTimeSeries]_vars

\* either object, one per run
NextModels == NextRegression \/ NextTimeSeries

SpecModels == InitModels /\ [][NextModels]_vars

(***************************************************************************)
(* SpecMetrics: the metric functions of the scorer called on their own;    *)
(* calls holds the last call                                               *)
(***************************************************************************)
LineAlphabet ==
    {Chars("a", 11), Padded(Chars("a", 11)), Chars("b", 12), Chars("a", 10), Chars(" ", 2)}

\* every text of up to three lines over the alphabet, and the longer texts
LineSequences ==
    UNION {[1..n -> LineAlphabet] : n \in 0..3} \cup LineInputs

MatchCounts ==
    [if : {0, 2}, for : {0, 1}, while : {0, 3}, switch : {0, 1}, catch : {0, 1},
     ternary : {0, 50, 99}]

MetricCall(op, arg, out) ==
    <<[model |-> "scorer", op |-> op, arg |-> arg, before |-> Null, out |-> Some(out)]>>

FindDuplicateLines ==
    /\ \E lines \in LineSequences :
          calls' = MetricCall("findDuplicateLines", lines, findDuplicateLines(lines))
    /\ UNCHANGED <<regressionModel, timeSeriesModel, engineVars, scorerVars, tracker, backend>>

FindDuplicatePatterns ==
    /\ \E lines \in LineSequences :
          calls' = MetricCall("findDuplicatePatterns", lines, findDuplicatePatterns(lines))
    /\ UNCHANGED <<regressionModel, timeSeriesModel, engineVars, scorerVars, tracker, backend>>

CalculateComplexity ==
    /\ \E matches \in MatchCounts \cup MatchInputs :
          calls' = MetricCall("calculateComplexity", matches, calculateComplexity(matches))
    /\ UNCHANGED <<regressionModel, timeSeriesModel, engineVars, scorerVars, tracker, backend>>

NextMetrics == FindDuplicateLines \/ FindDuplicatePatterns \/ CalculateComplexity

SpecMetrics == InitScorer /\ [][NextMetrics]_vars

(***************************************************************************)
(* The analysis of the backend: analyzeCode of the API handlers and        *)
(* performCodeAnalysis of the server.  A source text is a document with    *)
(* the matches of the backend's own patterns: words counts the matches of  *)
(* \bif\b, \belse\b, ... in it, indicators the matches of                 *)
(* if\s*\(|for\s*\(|while\s*\(|switch\s*\(, longFunctionMatches the      *)
(* matches of function\s+\w+\s*\([^)]*\)\s*\{[^}]{200,}\}.               *)
(***************************************************************************)
\* number of occurrences, first excepted, of the lines that occur twice or more
RECURSIVE GroupedDuplicates(_, _, _)
GroupedDuplicates(lines, i, lineGroups) ==
    IF i > Len(lines)
    THEN SumInt([k \in 1..Len(lineGroups) |->
                    IF lineGroups[k].count > 1 THEN lineGroups[k].count - 1 ELSE 0],
                1, Len(lineGroups))
    ELSE LET trimmed == Trim(lines[i])
             known == {k \in 1..Len(lineGroups) : lineGroups[k].line = trimmed}
         IN  IF Len(trimmed) > 10
             THEN IF known = {}
                  THEN GroupedDuplicates(lines, i + 1,
                           Append(lineGroups, [line |-> trimmed, count |-> 1]))
                  ELSE GroupedDuplicates(lines, i + 1,
                           [k \in 1..Len(lineGroups) |->
                               IF k \in known
                               THEN [lineGroups[k] EXCEPT !.count = @ + 1]
                               ELSE lineGroups[k]])
             ELSE GroupedDuplicates(lines, i + 1, lineGroups)

analyzeCode(code) ==
    LET NonEmpty(line) == Len(Trim(line)) > 0
        complexity == code.words["if"] + code.words["else"] + code.words["for"]
                        + code.words["while"] + code.words["switch"]
                        + code.words["catch"] + code.words["try"]
        longFunctions == code.longFunctionMatches
        duplicateLines == GroupedDuplicates(code.lines, 1, <<>>)
        qualityScore == ClampInt(0, 100,
                            100 - complexity * 8 - duplicateLines * 3 - longFunctions * 12)
    IN  [qualityScore |-> qualityScore,
         metrics |-> [totalLines |-> IF code.lines = <<>> THEN 1 ELSE Len(code.lines),
                      nonEmptyLines |-> Len(SelectSeq(code.lines, NonEmpty)),
                      complexity |-> complexity,
                      longFunctions |-> longFunctions,
                      duplicateLines |-> duplicateLines],
         grade |-> IF qualityScore >= 80 THEN "A"
                   ELSE IF qualityScore >= 60 THEN "B"
                   ELSE IF qualityScore >= 40 THEN "C" ELSE "D"]

\* duplicateLines: the local of that name, which the result leaves out
performCodeAnalysis(code) ==
    LET NonEmpty(line) == Len(Trim(line)) > 0
        complexity == RMin(R(10), Frac(code.indicators, 10))
        duplicateLines == findDuplicateLines(code.lines)
        qualityScore == RMax(R(0), RMin(R(100),
                            RSub(RSub(R(100), RMul(complexity, R(10))), R(duplicateLines * 5))))
    IN  [qualityScore |-> RRound(qualityScore),
         bugRisk |-> RMin(R(100), RAdd(RMul(complexity, R(15)), R(duplicateLines * 3))),
         maintainability |-> RMax(R(1), RMin(R(10), RSub(R(10), RMul(complexity, R(2))))),
         performance |-> RMax(R(1), RMin(R(10), RSub(R(10), RMul(complexity, Frac(3, 2))))),
         complexity |-> complexity,
         linesOfCode |-> Len(SelectSeq(code.lines, NonEmpty)),
         duplicateLines |-> duplicateLines]

\* a document whose keywords are all followed by "(", with elses else and
\* tries try keywords, and long function bodies of 200 characters or more
SourceText(doc, elses, tries, long) ==
    [matches |-> doc.matches, lines |-> doc.lines, extension |-> doc.extension,
     functions |-> doc.functions,
     words |-> [if |-> doc.matches["if"], else |-> elses, for |-> doc.matches["for"],
                while |-> doc.matches["while"], switch |-> doc.matches["switch"],
                catch |-> doc.matches["catch"], try |-> tries],
     indicators |-> doc.matches["if"] + doc.matches["for"] + doc.matches["while"]
                      + doc.matches["switch"],
     longFunctionMatches |-> long]

SourceTexts ==
    {SourceText(doc, extra[1], extra[2], extra[3]) :
        doc \in {d \in Documents : d.extension = "ts" /\ Len(d.functions) \in {0, 4}},
        extra \in {<<0, 0, 0>>, <<1, 1, 1>>}}

BackendCall(op, arg, out) ==
    <<[model |-> "backend", op |-> op, arg |-> arg, before |-> Null, out |-> Some(out)]>>

\* POST /analyze of the API handlers (part_001 line 359)
AnalyzeCode ==
    /\ \E code \in SourceTexts : calls' = BackendCall("analyzeCode", code, analyzeCode(code))
    /\ UNCHANGED <<regressionModel, timeSeriesModel, engineVars, scorerVars, tracker, backend>>

\* POST /api/analysis/analyze of the server
PerformCodeAnalysis ==
    /\ \E code \in SourceTexts :
          calls' = BackendCall("performCodeAnalysis", code, performCodeAnalysis(code))
    /\ UNCHANGED <<regressionModel, timeSeriesModel, engineVars, scorerVars, tracker, backend>>

NextBackendAnalysis == AnalyzeCode \/ PerformCodeAnalysis

SpecBackendAnalysis == InitScorer /\ [][NextBackendAnalysis]_vars

(***************************************************************************)
(* SpecSamples: the samples that reach recordQuality: the patterns the     *)
(* QualityTracker generates from its activity, and generateTestData        *)
(***************************************************************************)
MaxTrackedAnalyses == 2    \* recordQualityAnalysis calls of one session

\* what detectPatterns hands to recordQualityAnalysis: a score and the
\* number of issues of a document
TrackedAnalyses == {<<90, 0>>, <<40, 6>>}

\* complexity arguments of generateQualityPattern: the complexity of the
\* project metrics (0..1) and of analyzeCodeQuality (0.1..10)
ComplexityArguments == {Frac(1, 2), R(1), Frac(1, 10), Frac(5, 2)}

\* Math.random() at its least and at its greatest
TestPatterns(t) ==
    {Pattern(t, 60, 30, 100, 1, 0, "TypeScript", Frac(3, 10)),
     Pattern(t, 99, 149, 599, 5, 2, "TypeScript", Frac(79, 100))}

samplesFrame == <<projectAnalyzer, loadHistoricalData, pendingAnalyses, now, workspace,
                  lastAnalysis, calls, scorerVars, backend>>

StartTracking ==
    /\ ~tracker.isTracking
    /\ tracker' = startTracking(tracker, now)
    /\ UNCHANGED <<qualityHistory, regressionModel, timeSeriesModel, globalState, recorded,
                   lastRecord, samplesFrame>>

RecordQualityAnalysis ==
    /\ tracker.recentActivity.filesAnalyzed < MaxTrackedAnalyses
    /\ \E analysis \in TrackedAnalyses :
          tracker' = recordQualityAnalysis(tracker, analysis[1], analysis[2])
    /\ UNCHANGED <<qualityHistory, regressionModel, timeSeriesModel, globalState, recorded,
                   lastRecord, samplesFrame>>

\* the tracker's pattern is recorded
RecordTrackedQuality ==
    /\ Len(recorded) < MaxRecords
    /\ \E complexity \in ComplexityArguments :
          recordQuality(generateQualityPattern(tracker, "TypeScript", complexity, now), TRUE)

\* generateTestData (AnalysisEngine.ts 272-286)
GenerateTestData ==
    /\ Len(recorded) < MaxRecords
    /\ \E testPattern \in TestPatterns(now) : recordQuality(testPattern, TRUE)

NextSamples ==
    \/ LoadHistoricalDataResume
    \/ StartTracking
    \/ RecordQualityAnalysis
    \/ RecordTrackedQuality
    \/ GenerateTestData

SpecSamples == InitWith({Undefined, Some(StoredHistory(9))}, {Null}) /\ [][NextSamples]_vars

(***************************************************************************)
(* SpecTracker: the QualityTracker called directly: tracking switched on   *)
(* and off, the three record methods with the counts detectPatterns hands  *)
(* over (none of them negative), and resetSession                          *)
(***************************************************************************)
MaxDuplicates == 3     \* duplicateCodeDetected up to which more is recorded

DuplicateCounts == {1, 2}

\* the call just made on the tracker: what it was before and after
TrackerCall(op, arg, after) ==
    <<[model |-> "tracker", op |-> op, arg |-> arg, before |-> tracker, out |-> after]>>

trackerFrame == <<regressionModel, timeSeriesModel, engineVars, scorerVars, backend>>

TrackerStart ==
    /\ tracker' = startTracking(tracker, now)
    /\ calls' = TrackerCall("startTracking", Null, tracker')
    /\ UNCHANGED trackerFrame

TrackerStop ==
    /\ tracker' = stopTracking(tracker)
    /\ calls' = TrackerCall("stopTracking", Null, tracker')
    /\ UNCHANGED trackerFrame

TrackerRecordQualityAnalysis ==
    /\ tracker.recentActivity.filesAnalyzed < MaxTrackedAnalyses
    /\ \E analysis \in TrackedAnalyses :
          /\ tracker' = recordQualityAnalysis(tracker, analysis[1], analysis[2])
          /\ calls' = TrackerCall("recordQualityAnalysis", analysis, tracker')
    /\ UNCHANGED trackerFrame

TrackerRecordDuplicateCode ==
    /\ tracker.recentActivity.duplicateCodeDetected < MaxDuplicates
    /\ \E count \in DuplicateCounts :
          /\ tracker' = recordDuplicateCode(tracker, count)
          /\ calls' = TrackerCall("recordDuplicateCode", <<count>>, tracker')
    /\ UNCHANGED trackerFrame

TrackerRecordLongFunction ==
    /\ tracker' = recordLongFunction(tracker)
    /\ calls' = TrackerCall("recordLongFunction", Null, tracker')
    /\ UNCHANGED trackerFrame

TrackerResetSession ==
    /\ tracker' = resetSession(tracker, now)
    /\ calls' = TrackerCall("resetSession", Null, tracker')
    /\ UNCHANGED trackerFrame

NextTracker ==
    \/ TrackerStart
    \/ TrackerStop
    \/ TrackerRecordQualityAnalysis
    \/ TrackerRecordDuplicateCode
    \/ TrackerRecordLongFunction
    \/ TrackerResetSession

SpecTracker == InitScorer /\ [][NextTracker]_vars

(***************************************************************************)
(* SpecUsage: analyze requests of one user in one month, handled           *)
(* concurrently; each request is between two of its awaits                 *)
(***************************************************************************)
MaxRequests == 2       \* analyze requests in flight
MaxArrivals == 4       \* analyze requests of one behaviour

\* the plan and the usage row the month's earlier requests left
UsageStarts ==
    {Backend_new(FreeLimit, Null), Backend_new(FreeLimit, Some(FreeLimit - 2)),
     Backend_new(FreeLimit, Some(FreeLimit - 1)), Backend_new(ProLimit, Some(ProLimit - 1)),
     Backend_new(Unlimited, Null), Backend_new(Unlimited, Some(ProLimit))}

InitUsage ==
    /\ globalState = [qualityHistory |-> Undefined]
    /\ loadHistoricalData = [pc |-> "await", history |-> <<>>]
    /\ qualityHistory = <<>>
    /\ regressionModel = LinearRegressionModel_new
    /\ timeSeriesModel = TimeSeriesModel_new
    /\ projectAnalyzer = ProjectAnalyzer_new
    /\ pendingAnalyses = <<>>
    /\ now = StartTime
    /\ workspace = Null
    /\ lastAnalysis = Null
    /\ recorded = <<>>
    /\ lastRecord = Null
    /\ calls = <<>>
    /\ document = Null
    /\ quality = Null
    /\ tracker = QualityTracker_new(StartTime)
    /\ backend \in UsageStarts

usageFrame ==
    <<regressionModel, timeSeriesModel, engineVars, calls, scorerVars, tracker>>

Without(requests, i) ==
    [j \in 1..(Len(requests) - 1) |-> IF j < i THEN requests[j] ELSE requests[j + 1]]

\* a request that passes authentication and validation (lines 336-346) and
\* awaits checkUsageLimit
AnalyzeRequest ==
    /\ backend.arrived < MaxArrivals
    /\ Len(backend.requests) < MaxRequests
    /\ backend' = [backend EXCEPT !.requests = Append(@, [pc |-> "checkUsageLimit"]),
                                  !.arrived = @ + 1]
    /\ UNCHANGED usageFrame

\* checkUsageLimit reads the usage row and resolves (lines 54-99); the
\* request is refused with 429, or analyzeCode runs and the insert is
\* awaited (349-379)
CheckUsageLimit ==
    /\ \E i \in 1..Len(backend.requests) :
          /\ backend.requests[i].pc = "checkUsageLimit"
          /\ backend' =
                IF checkUsageLimit(backend.limit, backend.usage).canAnalyze
                THEN [backend EXCEPT !.requests[i].pc = "insert", !.performed = @ + 1]
                ELSE [backend EXCEPT !.requests = Without(@, i), !.refused = @ + 1]
    /\ UNCHANGED usageFrame

\* the insert settles, its error only logged, and updateUsage is awaited
\* (lines 381-386)
InsertSettles ==
    /\ \E i \in 1..Len(backend.requests) :
          /\ backend.requests[i].pc = "insert"
          /\ backend' = [backend EXCEPT !.requests[i].pc = "updateUsage"]
    /\ UNCHANGED usageFrame

\* increment_usage runs, or fails with an error that is only logged
\* (lines 102-111), and the request is answered 200 (388-394)
UpdateUsage ==
    /\ \E i \in 1..Len(backend.requests), rpcOk \in BOOLEAN :
          /\ backend.requests[i].pc = "updateUsage"
          /\ backend' = [backend EXCEPT
                            !.usage = IF rpcOk THEN increment_usage(@) ELSE @,
                            !.requests = Without(@, i)]
    /\ UNCHANGED usageFrame

NextUsage == AnalyzeRequest \/ CheckUsageLimit \/ InsertSettles \/ UpdateUsage

SpecUsage == InitUsage /\ [][NextUsage]_vars

(***************************************************************************)
(* SpecTransaction: calls of the transaction helper, one after another;    *)
(* backend holds the call in hand.  Every statement and the callback       *)
(* either resolve or throw.                                                *)
(***************************************************************************)
MaxTransactions == 2   \* calls of transaction

CallbackStatements == {<<>>, <<"INSERT">>, <<"INSERT", "UPDATE">>}

CallbackResults == {Returned("row 1"), Returned("row 2"), Thrown("callback")}

InitTransaction ==
    /\ globalState = [qualityHistory |-> Undefined]
    /\ loadHistoricalData = [pc |-> "await", history |-> <<>>]
    /\ qualityHistory = <<>>
    /\ regressionModel = LinearRegressionModel_new
    /\ timeSeriesModel = TimeSeriesModel_new
    /\ projectAnalyzer = ProjectAnalyzer_new
    /\ pendingAnalyses = <<>>
    /\ now = StartTime
    /\ workspace = Null
    /\ lastAnalysis = Null
    /\ recorded = <<>>
    /\ lastRecord = Null
    /\ calls = <<>>
    /\ document = Null
    /\ quality = Null
    /\ tracker = QualityTracker_new(StartTime)
    /\ backend = Transaction_new(0)

TransactionConnect ==
    /\ backend.pc = "connect"
    /\ \E ok \in BOOLEAN : backend' = transaction_connect(backend, ok)
    /\ UNCHANGED usageFrame

TransactionBegin ==
    /\ backend.pc = "BEGIN"
    /\ \E ok \in BOOLEAN : backend' = transaction_begin(backend, ok)
    /\ UNCHANGED usageFrame

TransactionCallback ==
    /\ backend.pc = "callback"
    /\ \E statements \in CallbackStatements, result \in CallbackResults :
          backend' = transaction_callback(backend, statements, result)
    /\ UNCHANGED usageFrame

TransactionCommit ==
    /\ backend.pc = "COMMIT"
    /\ \E ok \in BOOLEAN : backend' = transaction_commit(backend, ok)
    /\ UNCHANGED usageFrame

TransactionCatch ==
    /\ backend.pc = "ROLLBACK"
    /\ \E ok \in BOOLEAN : backend' = transaction_catch(backend, ok)
    /\ UNCHANGED usageFrame

TransactionFinally ==
    /\ backend.pc = "finally"
    /\ backend' = transaction_finally(backend)
    /\ UNCHANGED usageFrame

\* the caller makes its next call
TransactionAgain ==
    /\ backend.pc = "done"
    /\ backend.finished + 1 < MaxTransactions
    /\ backend' = Transaction_new(backend.finished + 1)
    /\ UNCHANGED usageFrame

NextTransaction ==
    \/ TransactionConnect
    \/ TransactionBegin
    \/ TransactionCallback
    \/ TransactionCommit
    \/ TransactionCatch
    \/ TransactionFinally
    \/ TransactionAgain

SpecTransaction == InitTransaction /\ [][NextTransaction]_vars

(***************************************************************************)
(* SpecAnalyzer: analyzeCurrentProject called on one ProjectAnalyzer while *)
(* the clock advances and the workspace changes.  calls holds the last two *)
(* events, a returned call or a change of the workspace, oldest first;     *)
(* pendingAnalyses holds the calls that await performAnalysis.             *)
(***************************************************************************)
MaxClockSteps == 4     \* clock steps of half the cache validity
MaxTraversals == 1     \* calls awaiting performAnalysis at once

ClockStepMs == cacheValidityMs \div 2

\* the branch of analyzeCurrentProject a call takes (lines 25-47)
PathOf(pa, ws, t) ==
    IF CacheValid(pa, t) THEN "cached"
    ELSE IF ws = Null THEN "noWorkspace"
    ELSE "performAnalysis"

AnalyzerEvent(path, start, before, out) ==
    [model |-> "analyzer", path |-> path, start |-> start, end |-> now,
     before |-> before, workspace |-> workspace, out |-> out]

Logged(event) == SliceLast(Append(calls, event), 2)

analyzerFrame ==
    <<qualityHistory, regressionModel, timeSeriesModel, globalState, loadHistoricalData,
      lastAnalysis, recorded, lastRecord, scorerVars, tracker, backend>>

\* lines 40-47: the analyzer after performAnalysis settled for a call made at
\* time start
AfterAnalysisCachingFallback(pa, start, metrics, throws) ==
    [cachedMetrics |-> Some(metrics), lastAnalysisTime |-> start]

AfterAnalysis(pa, start, metrics, throws) ==
    IF throws THEN pa
    ELSE [cachedMetrics |-> Some(metrics), lastAnalysisTime |-> start]

\* a call that returns without awaiting (lines 25-36)
AnalyzeSettled ==
    /\ SettledMetrics(projectAnalyzer, workspace, now) # Null
    /\ calls' = Logged(AnalyzerEvent(PathOf(projectAnalyzer, workspace, now), now,
                                     Some(projectAnalyzer),
                                     SettledMetrics(projectAnalyzer, workspace, now)))
    /\ UNCHANGED <<projectAnalyzer, pendingAnalyses, now, workspace, analyzerFrame>>

\* a call that reaches await performAnalysis (lines 24-41)
AnalyzeBegin ==
    /\ SettledMetrics(projectAnalyzer, workspace, now) = Null
    /\ Len(pendingAnalyses) < MaxTraversals
    /\ pendingAnalyses' = Append(pendingAnalyses,
                                 [now |-> now, before |-> Some(projectAnalyzer)])
    /\ UNCHANGED <<projectAnalyzer, now, workspace, calls, analyzerFrame>>

\* performAnalysis settles and the call returns (lines 41-47)
AnalyzeEnd ==
    /\ \E i \in 1..Len(pendingAnalyses), throws \in BOOLEAN :
          LET call == pendingAnalyses[i]
              metrics == IF throws THEN getDefaultMetrics
                         ELSE performAnalysis(ValueOf(workspace))
          IN  /\ projectAnalyzer' = AfterAnalysis(projectAnalyzer, call.now, metrics, throws)
              /\ calls' = Logged(AnalyzerEvent(IF throws THEN "failed" ELSE "analysed",
                                               call.now, call.before, Some(metrics)))
              /\ pendingAnalyses' = [j \in 1..(Len(pendingAnalyses) - 1) |->
                                        IF j < i THEN pendingAnalyses[j]
                                        ELSE pendingAnalyses[j + 1]]
    /\ UNCHANGED <<now, workspace, analyzerFrame>>

ClockStep ==
    /\ now < StartTime + MaxClockSteps * ClockStepMs
    /\ now' = now + ClockStepMs
    /\ UNCHANGED <<projectAnalyzer, pendingAnalyses, workspace, calls, analyzerFrame>>

\* files change, or a folder is opened or closed, while no traversal runs
ChangeWorkspace ==
    /\ pendingAnalyses = <<>>
    /\ workspace' \in Workspaces \ {workspace}
    /\ calls' = Logged(AnalyzerEvent("change", now, Null, Null))
    /\ UNCHANGED <<projectAnalyzer, pendingAnalyses, now, analyzerFrame>>

NextAnalyzer ==
    AnalyzeSettled \/ AnalyzeBegin \/ AnalyzeEnd \/ ClockStep \/ ChangeWorkspace

SpecAnalyzer == InitWith({Undefined}, Workspaces) /\ [][NextAnalyzer]_vars

(***************************************************************************)
(* SpecOverlap: analyzeCurrentProject calls that overlap: up to MaxOverlap *)
(* calls await performAnalysis at once, on one workspace folder, and the   *)
(* traversals settle in any order                                          *)
(***************************************************************************)
MaxOverlap == 2        \* calls awaiting performAnalysis at once

\* a call that reaches await performAnalysis (lines 24-41) while others wait
AnalyzeBeginOverlapping ==
    /\ SettledMetrics(projectAnalyzer, workspace, now) = Null
    /\ Len(pendingAnalyses) < MaxOverlap
    /\ pendingAnalyses' = Append(pendingAnalyses,
                                 [now |-> now, before |-> Some(projectAnalyzer)])
    /\ UNCHANGED <<projectAnalyzer, now, workspace, calls, analyzerFrame>>

NextOverlap == AnalyzeSettled \/ AnalyzeBeginOverlapping \/ AnalyzeEnd \/ ClockStep

SpecOverlap ==
    InitWith({Undefined}, {Some(w) : w \in ProjectFacts}) /\ [][NextOverlap]_vars

(***************************************************************************)
(* SpecStorage: the methods of one DataStorage called in any order, each   *)
(* with a get / update of the underlying store that succeeds or throws;    *)
(* calls holds the last call with the store it found                       *)
(***************************************************************************)
Session(i) ==
    [id |-> i, startTime |-> i * HourMs, endTime |-> i * HourMs + MinuteMs,
     qualityScore |-> 80, linesAnalyzed |-> 10, filesModified |-> <<>>,
     projectType |-> "Python", complexity |-> 1]

HistoryInputs == {<<>>, StoredHistory(2)}

SettingsInputs ==
    {[DefaultUserSettings EXCEPT !.qualityThreshold = 60, !.analysisDepth = "deep"],
     [DefaultUserSettings EXCEPT !.enablePredictions = FALSE, !.lastSyncTime = 7]}

ModelDataInputs ==
    {[regressionWeights |-> <<1, 2>>, regressionBias |-> 3, timeSeriesData |-> Null,
      lastTrainingTime |-> StartTime, trainingDataCount |-> 12]}

SessionInputs ==
    {<<>>, <<Session(1)>>, [i \in 1..(MAX_SESSION_ENTRIES + 1) |-> Session(i)]}

\* for each key whether the get / update succeeds: all succeed, or one throws
Outcomes ==
    {[key \in StorageKeys |-> key # failing] : failing \in StorageKeys \cup {"none"}}

InitStorage ==
    /\ globalState = EmptyStore
    /\ loadHistoricalData = [pc |-> "await", history |-> loadQualityHistory(EmptyStore)]
    /\ qualityHistory = <<>>
    /\ regressionModel = LinearRegressionModel_new
    /\ timeSeriesModel = TimeSeriesModel_new
    /\ projectAnalyzer = ProjectAnalyzer_new
    /\ pendingAnalyses = <<>>
    /\ now = StartTime
    /\ workspace = Null
    /\ lastAnalysis = Null
    /\ recorded = <<>>
    /\ lastRecord = Null
    /\ calls = <<>>
    /\ document = Null
    /\ quality = Null
    /\ tracker = QualityTracker_new(StartTime)
    /\ backend = Backend_new(FreeLimit, Null)

StorageCall(op, arg, ok, out) ==
    <<[model |-> "storage", op |-> op, arg |-> arg, ok |-> ok,
       before |-> Some(globalState), out |-> Some(out)]>>

storageFrame ==
    <<qualityHistory, regressionModel, timeSeriesModel, projectAnalyzer,
      loadHistoricalData, pendingAnalyses, now, workspace, lastAnalysis, recorded,
      lastRecord, scorerVars, tracker, backend>>

Save(op, arg, ok, after) ==
    /\ globalState' = after
    /\ calls' = StorageCall(op, arg, ok, after)
    /\ UNCHANGED storageFrame

Load(op, ok, out) ==
    /\ calls' = StorageCall(op, Null, ok, out)
    /\ UNCHANGED <<globalState, storageFrame>>

SaveQualityHistory ==
    \E history \in HistoryInputs, updateOk \in BOOLEAN :
        Save("saveQualityHistory", history, updateOk,
             saveQualityHistory(globalState, history, updateOk))

SaveUserSettings ==
    \E settings \in SettingsInputs, updateOk \in BOOLEAN :
        Save("saveUserSettings", settings, updateOk,
             saveUserSettings(globalState, settings, updateOk))

SaveModelData ==
    \E modelData \in ModelDataInputs, updateOk \in BOOLEAN :
        Save("saveModelData", modelData, updateOk,
             saveModelData(globalState, modelData, updateOk))

SaveSessionData ==
    \E sessionData \in SessionInputs, updateOk \in BOOLEAN :
        Save("saveSessionData", sessionData, updateOk,
             saveSessionData(globalState, sessionData, updateOk))

LoadQualityHistory ==
    \E getOk \in BOOLEAN :
        Load("loadQualityHistory", getOk, loadQualityHistoryFrom(globalState, getOk))

LoadUserSettings ==
    \E getOk \in BOOLEAN :
        Load("loadUserSettings", getOk, loadUserSettings(globalState, getOk))

LoadModelData ==
    \E getOk \in BOOLEAN :
        Load("loadModelData", getOk, loadModelData(globalState, getOk))

LoadSessionData ==
    \E getOk \in BOOLEAN :
        Load("loadSessionData", getOk, loadSessionData(globalState, getOk))

ClearAllData ==
    \E firstFailing \in 1..5 :
        Save("clearAllData", firstFailing, firstFailing = 5,
             clearAllData(globalState, firstFailing))

\* exportAllData of this store, then importAllData of the exported data by
\* the DataStorage of a fresh store; out is that store after the import
ExportThenImport ==
    \E gets \in Outcomes, updates \in Outcomes :
        /\ calls' = StorageCall("exportThenImport", exportAllData(globalState, gets),
                                (\A key \in StorageKeys : gets[key] /\ updates[key]),
                                importAllData(EmptyStore, exportAllData(globalState, gets),
                                              updates))
        /\ UNCHANGED <<globalState, storageFrame>>

NextStorage ==
    \/ SaveQualityHistory
    \/ SaveUserSettings
    \/ SaveModelData
    \/ SaveSessionData
    \/ LoadQualityHistory
    \/ LoadUserSettings
    \/ LoadModelData
    \/ LoadSessionData
    \/ ClearAllData
    \/ ExportThenImport

SpecStorage == InitStorage /\ [][NextStorage]_vars

(***************************************************************************)
(* Properties                                                              *)
(***************************************************************************)
Min(a, b) == IF a < b THEN a ELSE b
LastCall == calls[Len(calls)]
Scores(history) == [i \in 1..Len(history) |-> history[i].qualityScore]

\* C1 (SpecHistory): whatever was loaded (at most 1000 entries) and however
\* many recordQuality calls were made, the in-memory history has at most
\* 1000 entries, and so has the history each call hands to storage and the
\* history storage holds.
C1_HistoryAtMost1000 ==
    /\ Len(qualityHistory) <= 1000
    /\ lastRecord # Null => Len(ValueOf(lastRecord).handed) <= 1000
    /\ globalState.qualityHistory # Undefined =>
          Len(ValueOf(globalState.qualityHistory)) <= 1000

\* a recordQuality call on a full loaded history has dropped its oldest entry
C1_Witness ==
    /\ lastRecord # Null
    /\ loadHistoricalData.pc = "done"
    /\ Len(loadHistoricalData.history) = 1000
    /\ Len(qualityHistory) = 1000
    /\ ValueOf(lastRecord).handed = qualityHistory
    /\ qualityHistory[1000] = ValueOf(lastRecord).pattern
    /\ qualityHistory[1] = loadHistoricalData.history[2]

C3_RetrainAboveTen ==
    [][recorded' # recorded =>
         LET r == ValueOf(lastRecord')
             h == qualityHistory'
             CallsOn(model) == {i \in 1..Len(r.calls) : r.calls[i].model = model}
         IN  IF Len(h) > 10
             THEN /\ Len(r.calls) = 2
                  /\ Cardinality(CallsOn("regression")) = 1
                  /\ Cardinality(CallsOn("timeSeries")) = 1
                  /\ \A i \in 1..Len(r.calls) : r.calls[i].history = h
                  /\ regressionModel'.isTrained
                  /\ regressionModel'.weights[1].targets = Scores(h)
                  /\ timeSeriesModel'.isInitialized
             ELSE /\ r.calls = <<>>
                  /\ regressionModel' = regressionModel
                  /\ timeSeriesModel' = timeSeriesModel]_vars

\* the call that took the history from 10 to 11 entries retrained both models
C3_Witness ==
    /\ lastRecord # Null
    /\ Len(qualityHistory) = 11
    /\ ValueOf(lastRecord).handed = qualityHistory
    /\ Len(ValueOf(lastRecord).calls) = 2
    /\ regressionModel.isTrained
    /\ timeSeriesModel.isInitialized

\* the fallback prediction as the claim states it
IsFallback(recentQuality, out) ==
    IF Len(recentQuality) = 0
    THEN /\ out.daily = 75
         /\ out.weekly = 75
         /\ out.confidence = Frac(3, 10)
         /\ out.riskFactors.bugProbability = R(20)
    ELSE /\ out.daily = RRound(Frac(SumInt(Scores(recentQuality), 1, Len(recentQuality)),
                                    Len(recentQuality)))
         /\ out.weekly = out.daily
         /\ out.confidence = Frac(5, 10)

ShortTrainOnFresh(call, maxLen) ==
    /\ call.model = "regression"
    /\ call.op = "train"
    /\ call.before = LinearRegressionModel_new
    /\ Len(call.arg) <= maxLen

\* train on a fresh model with a history of at most maxLen entries leaves
\* isTrained false, and a predict that follows returns the fallback
UntrainedUpTo(maxLen) ==
    /\ Len(calls) >= 1 /\ ShortTrainOnFresh(LastCall, maxLen) => ~regressionModel.isTrained
    /\ Len(calls) = 2 /\ ShortTrainOnFresh(calls[1], maxLen) /\ calls[2].op = "predict" =>
          /\ ~regressionModel.isTrained
          /\ IsFallback(calls[2].arg, ValueOf(calls[2].out))

ShortTimeSeriesTrain(call) ==
    /\ call.model = "timeSeries"
    /\ call.op = "train"
    /\ Len(call.arg) < 7

\* C5 (SpecTimeSeries): TimeSeriesModel.train with a history of length < 7
\* leaves isInitialized, trendCoefficient and seasonalFactors as they were;
\* on a fresh model isInitialized stays false and a predict that follows
\* returns daily 75, weekly 75, trend 'stable', seasonality 0, confidence
\* 0.3; train with length >= 7 sets isInitialized.
C5_ShortTrainIsNoOp ==
    /\ Len(calls) >= 1 /\ ShortTimeSeriesTrain(LastCall) =>
          /\ timeSeriesModel.isInitialized = LastCall.before.isInitialized
          /\ timeSeriesModel.trendCoefficient = LastCall.before.trendCoefficient
          /\ timeSeriesModel.seasonalFactors = LastCall.before.seasonalFactors
    /\ Len(calls) >= 1 /\ ShortTimeSeriesTrain(LastCall)
         /\ LastCall.before = TimeSeriesModel_new => ~timeSeriesModel.isInitialized
    /\ Len(calls) = 2 /\ ShortTimeSeriesTrain(calls[1])
         /\ calls[1].before = TimeSeriesModel_new /\ calls[2].op = "predict" =>
          ValueOf(calls[2].out) = [daily |-> 75, weekly |-> 75, trend |-> "stable",
                                   seasonality |-> R(0), confidence |-> Frac(3, 10)]
    /\ Len(calls) >= 1 /\ LastCall.model = "timeSeries" /\ LastCall.op = "train"
         /\ Len(LastCall.arg) >= 7 => timeSeriesModel.isInitialized

\* train with six samples on a fresh model, then predict on a history
C5_Witness ==
    /\ Len(calls) = 2
    /\ ShortTimeSeriesTrain(calls[1])
    /\ Len(calls[1].arg) = 6
    /\ calls[1].before = TimeSeriesModel_new
    /\ calls[2].op = "predict"
    /\ Len(calls[2].arg) > 0
    /\ ~timeSeriesModel.isInitialized

\* C6 (SpecModels): no train or predict call, train with a too-short history
\* included, takes isTrained or isInitialized from true back to false.
C6_ReadinessMonotone ==
    [][/\ regressionModel.isTrained => regressionModel'.isTrained
       /\ timeSeriesModel.isInitialized => timeSeriesModel'.isInitialized]_vars

\* a trained regression model was given a too-short history and is still trained
C6_Witness ==
    /\ Len(calls) >= 1
    /\ LastCall.model = "regression"
    /\ LastCall.op = "train"
    /\ Len(LastCall.arg) < 5
    /\ LastCall.before.isTrained
    /\ regressionModel.isTrained

\* generateAnalysis was called with an empty history and has returned
EmptyHistoryAnalysis ==
    /\ lastAnalysis # Null
    /\ ValueOf(lastAnalysis).history = <<>>

\* what generateAnalysis returns on an empty history, with the given term
\* added to complexity * 30 before clamping
EmptyHistoryResult(added) ==
    EmptyHistoryAnalysis =>
        LET a == ValueOf(lastAnalysis)
            complexity == a.projectMetrics.complexity
        IN  /\ RLe(R(0), complexity) /\ RLe(complexity, R(1))
            /\ a.result.overallQuality = 75
            /\ a.result.confidence = Frac(1, 2)
            /\ a.result.bugRisk =
                  RMax(R(0), RMin(R(100), RAdd(RMul(complexity, R(30)), added)))

\* C7 as amended (Spec): with an empty quality history generateAnalysis
\* returns overallQuality = 75, confidence = 0.5 and bugRisk equal to the
\* project complexity times 30 plus 20 (the fallback prediction's bug
\* probability), clamped to [0,100], for every project complexity in [0,1].
C7_EmptyHistoryAddsTwenty == EmptyHistoryResult(R(20))

\* C7 as stated: bugRisk is complexity times 30 clamped, nothing added
C7_AsStated == EmptyHistoryResult(R(0))

\* an analysis on an empty history with the complexity of a traversed project
C7_Witness ==
    /\ EmptyHistoryAnalysis
    /\ ValueOf(lastAnalysis).projectMetrics.complexity # Frac(5, 10)
    /\ ValueOf(lastAnalysis).result.overallQuality = 75

\* twice the centred sums of the least-squares fit of y against 0..n-1:
\* the slope is SlopeNum / SlopeDen
SlopeNum(y) == SumInt([i \in 1..Len(y) |-> (2 * (i - 1) - (Len(y) - 1)) * y[i]], 1, Len(y))
SlopeDen(y) == SumInt([i \in 1..Len(y) |-> (2 * (i - 1) - (Len(y) - 1)) * (i - 1)], 1, Len(y))

Ramp60To90 == <<60, 63, 65, 68, 71, 74, 76, 79, 82, 85, 87, 90>>

TrainThenPredict ==
    /\ Len(calls) = 2
    /\ calls[1].model = "timeSeries"
    /\ calls[1].op = "train"
    /\ Len(calls[1].arg) >= 7
    /\ calls[2].op = "predict"
    /\ Len(calls[2].arg) > 0

\* C8 (SpecTimeSeries): after train on at least 7 samples, predict on a
\* non-empty history labels the trend 'improving' iff the least-squares
\* slope of the trained scores against their index is > 2, 'declining' iff
\* it is < -2 and 'stable' otherwise; 12 samples rising linearly from 60 to
\* 90 give 'improving'.
C8_TrendLabel ==
    TrainThenPredict =>
        LET y == Scores(calls[1].arg)
            trend == ValueOf(calls[2].out).trend
        IN  /\ SlopeDen(y) > 0
            /\ trend = "improving" <=> SlopeNum(y) > 2 * SlopeDen(y)
            /\ trend = "declining" <=> SlopeNum(y) < (-2) * SlopeDen(y)
            /\ trend = "stable" <=> /\ SlopeNum(y) <= 2 * SlopeDen(y)
                                    /\ SlopeNum(y) >= (-2) * SlopeDen(y)
            /\ y = Ramp60To90 => trend = "improving"

C8_Witness ==
    /\ TrainThenPredict
    /\ Scores(calls[1].arg) = Ramp60To90
    /\ ValueOf(calls[2].out).trend = "improving"

\* the three metrics analyzeCodeQuality derives from a document
MetricsOf(doc) ==
    [complexity |-> calculateComplexity(doc.matches),
     duplicateLines |-> findDuplicateLines(doc.lines),
     longFunctions |-> findLongFunctions(doc.functions, doc.extension)]

Unclamped(m) ==
    RSub(R(100 - m.duplicateLines * 5 - m.longFunctions * 15), RMul(m.complexity, R(10)))

\* C9 (SpecScorer): with complexity in [0,10] and duplicateLines,
\* longFunctions >= 0 the quality score of analyzeCodeQuality is in [0,100];
\* it equals 100 - complexity*10 - duplicateLines*5 - longFunctions*15
\* whenever that lies in [0,100], and is 0 otherwise.
C9_QualityScore ==
    quality # Null =>
        LET m == MetricsOf(ValueOf(document))
            score == ValueOf(quality).qualityScore
        IN  (/\ RLe(R(0), m.complexity) /\ RLe(m.complexity, R(10))
             /\ m.duplicateLines >= 0 /\ m.longFunctions >= 0) =>
               /\ score \in 0..100
               /\ IF RLe(R(0), Unclamped(m)) /\ RLe(Unclamped(m), R(100))
                  THEN R(score) = Unclamped(m)
                  ELSE score = 0

\* a document with duplicate lines and long functions, scored within range
C9_Witness ==
    /\ quality # Null
    /\ MetricsOf(ValueOf(document)).duplicateLines > 0
    /\ MetricsOf(ValueOf(document)).longFunctions > 0
    /\ ValueOf(quality).qualityScore \in 1..99

\* m2 is m with one metric the same or larger and the other two the same
RaisesOneMetric(m, m2) ==
    \/ /\ RLe(m.complexity, m2.complexity)
       /\ m2.duplicateLines = m.duplicateLines
       /\ m2.longFunctions = m.longFunctions
    \/ /\ m2.complexity = m.complexity
       /\ m2.duplicateLines >= m.duplicateLines
       /\ m2.longFunctions = m.longFunctions
    \/ /\ m2.complexity = m.complexity
       /\ m2.duplicateLines = m.duplicateLines
       /\ m2.longFunctions >= m.longFunctions

\* C10 (SpecScorer): the bugRisk of analyzeCodeQuality lies in [0,100], and
\* a document whose complexity, duplicateLines or longFunctions is larger,
\* the other two being the same, has a bugRisk at least as large.
C10_BugRiskMonotone ==
    quality # Null =>
        LET m == MetricsOf(ValueOf(document))
            bugRisk == ValueOf(quality).bugRisk
        IN  /\ RLe(R(0), bugRisk) /\ RLe(bugRisk, R(100))
            /\ \A doc2 \in Documents :
                  RaisesOneMetric(m, MetricsOf(doc2)) =>
                      RLe(bugRisk, analyzeCodeQuality(doc2).bugRisk)

\* some document raises each metric in turn and has a strictly larger bugRisk
C10_Witness ==
    /\ quality # Null
    /\ LET m == MetricsOf(ValueOf(document))
           bugRisk == ValueOf(quality).bugRisk
           Larger(doc2) == RLt(bugRisk, analyzeCodeQuality(doc2).bugRisk)
       IN  /\ \E doc2 \in Documents :
                /\ RLt(m.complexity, MetricsOf(doc2).complexity)
                /\ RaisesOneMetric(m, MetricsOf(doc2))
                /\ Larger(doc2)
           /\ \E doc2 \in Documents :
                /\ MetricsOf(doc2).duplicateLines > m.duplicateLines
                /\ RaisesOneMetric(m, MetricsOf(doc2))
                /\ Larger(doc2)
           /\ \E doc2 \in Documents :
                /\ MetricsOf(doc2).longFunctions > m.longFunctions
                /\ RaisesOneMetric(m, MetricsOf(doc2))
                /\ Larger(doc2)

\* the number of matches of the six patterns
TotalMatches(matches) ==
    matches["if"] + matches["for"] + matches["while"] + matches["switch"]
        + matches["catch"] + matches["ternary"]

DuplicateCall ==
    /\ Len(calls) = 1
    /\ calls[1].op \in {"findDuplicateLines", "findDuplicatePatterns"}

\* the trimmed texts of more than 10 characters among the lines
LongTexts(lines) == {Trim(lines[i]) : i \in {j \in 1..Len(lines) : Len(Trim(lines[j])) > 10}}
Occurrences(lines, text) == Cardinality({i \in 1..Len(lines) : Trim(lines[i]) = text})

\* C11 (SpecMetrics): findDuplicateLines (and findDuplicatePatterns) returns
\* the number of distinct trimmed texts longer than 10 characters that occur
\* at least twice among the lines: a line repeated k >= 2 times counts once,
\* three identical long lines give 1, and lines whose trimmed length is at
\* most 10 never count.
C11_DuplicateLines ==
    DuplicateCall =>
        LET lines == calls[1].arg
            out == ValueOf(calls[1].out)
            short == SelectSeq(lines, LAMBDA line : Len(Trim(line)) <= 10)
        IN  /\ out = Cardinality({t \in LongTexts(lines) : Occurrences(lines, t) >= 2})
            /\ (Len(lines) = 3 /\ Len(lines[1]) > 10 /\ lines[1] = lines[2]
                  /\ lines[2] = lines[3] /\ Trim(lines[1]) = lines[1]) => out = 1
            /\ LongTexts(lines) = {} => out = 0

\* three identical long lines were counted
C11_Witness ==
    /\ DuplicateCall
    /\ calls[1].arg = <<Chars("a", 11), Chars("a", 11), Chars("a", 11)>>
    /\ ValueOf(calls[1].out) = 1

ComplexityCall ==
    /\ Len(calls) = 1
    /\ calls[1].op = "calculateComplexity"

\* calculateComplexity returns min(10, (base + N) / 10), N the number of
\* matches of the six patterns; the result lies in [0,10]
ComplexityWithBase(base) ==
    ComplexityCall =>
        LET n == TotalMatches(calls[1].arg)
            out == ValueOf(calls[1].out)
        IN  /\ out = (IF base + n >= 100 THEN R(10) ELSE Frac(base + n, 10))
            /\ n = 0 => out = Frac(base, 10)
            /\ RLe(R(0), out) /\ RLe(out, R(10))

\* C12 as amended (SpecMetrics): calculateComplexity returns
\* min(10, (N + 1)/10), where N is the total number of matches of the six
\* patterns, each match counting one unit on top of a base of 1; a text with
\* no match has complexity 0.1, and the result always lies in [0,10].
C12_ComplexityFromBaseOne == ComplexityWithBase(1)

\* C12 as stated: min(10, N/10), and 0 for a text with no match
C12_AsStated == ComplexityWithBase(0)

\* every pattern matched, below the clamp
C12_Witness ==
    /\ ComplexityCall
    /\ \A k \in DOMAIN calls[1].arg : calls[1].arg[k] > 0
    /\ RLt(ValueOf(calls[1].out), R(10))


\* calls holds two analyzeCurrentProject calls, the first returned before
\* the second, with no change of the workspace from the start of the first
\* to the return of the second, made less than 5 minutes apart
TwoCallsNoChange ==
    /\ Len(calls) = 2
    /\ \A i \in 1..2 : calls[i].model = "analyzer" /\ calls[i].path # "change"
    /\ Abs(calls[2].start - calls[1].start) < cacheValidityMs

\* C13 (SpecAnalyzer), as amended: two analyzeCurrentProject calls less than
\* 5 minutes apart with no change of filesystem or workspace in between
\* return identical metrics when the first returned the cached result or
\* the result of its own successful analysis and the second is answered
\* from the cache, and when both find no workspace folder and no valid
\* cache.
C13_IdempotentWhileCached ==
    TwoCallsNoChange =>
        /\ calls[1].path \in {"cached", "analysed"} /\ calls[2].path = "cached"
              => calls[2].out = calls[1].out
        /\ calls[1].path = "noWorkspace" /\ calls[2].path = "noWorkspace"
              => calls[2].out = calls[1].out

\* C13 as stated: the two calls return identical metrics, whatever the
\* first call did.
C13_AsStated ==
    TwoCallsNoChange => calls[2].out = calls[1].out

\* an analysis of a workspace folder, then a call answered from its cache
C13_Witness ==
    /\ TwoCallsNoChange
    /\ calls[1].path = "analysed"
    /\ calls[2].path = "cached"
    /\ calls[2].start > calls[1].start
    /\ calls[2].workspace # Null

\* the cache the call found was valid at the time of the call
FoundValidCache(call) ==
    CacheValid(ValueOf(call.before), call.start)

\* the cache the call found holds a result that is 5 minutes old or older
FoundExpiredCache(call) ==
    /\ ValueOf(call.before).cachedMetrics # Null
    /\ call.start - ValueOf(call.before).lastAnalysisTime >= cacheValidityMs

AnalyzerCalls ==
    {i \in 1..Len(calls) : calls[i].model = "analyzer" /\ calls[i].path # "change"}

\* C14 (SpecAnalyzer): a call made while a cached result exists and less than
\* 5 minutes have passed since the start of the analysis that produced it
\* returns the cached result without traversal, whatever the workspace is
\* by then; a call made 5 minutes or more after it does not use the cache:
\* what it returns is computed from the workspace as it is when the
\* traversal ends (the default metrics when no folder is open or the
\* traversal throws), and a successful traversal replaces the cache.
C14_ExpiryOnly ==
    \A i \in AnalyzerCalls :
        /\ FoundValidCache(calls[i]) =>
              /\ calls[i].path = "cached"
              /\ calls[i].out = ValueOf(calls[i].before).cachedMetrics
              /\ calls[i].end = calls[i].start
        /\ FoundExpiredCache(calls[i]) =>
              /\ calls[i].path # "cached"
              /\ calls[i].workspace # Null =>
                    /\ calls[i].path \in {"analysed", "failed"}
                    /\ calls[i].path = "analysed" =>
                          calls[i].out = Some(performAnalysis(ValueOf(calls[i].workspace)))
              /\ calls[i].workspace = Null => calls[i].path = "noWorkspace"

\* a change of the workspace inside the cache window, then a call that
\* still returns the cache; and a call exactly 5 minutes after the analysis
\* that returns the metrics of the changed workspace
C14_Witness ==
    \/ /\ Len(calls) = 2
       /\ calls[1].path = "change"
       /\ calls[2].path = "cached"
       /\ calls[2].workspace # Null
       /\ calls[2].out # Some(performAnalysis(ValueOf(calls[2].workspace)))
    \/ /\ Len(calls) = 2
       /\ calls[2].path = "analysed"
       /\ FoundExpiredCache(calls[2])
       /\ calls[2].start - ValueOf(calls[2].before).lastAnalysisTime = cacheValidityMs
       /\ calls[2].out # ValueOf(calls[2].before).cachedMetrics

\* the call found no workspace folder, or its analysis threw
FellBack(call) ==
    call.path \in {"noWorkspace", "failed"} \/ (call.path = "cached" /\ call.workspace = Null)

\* C19 (SpecAnalyzer), as amended: analyzeCurrentProject always returns
\* metrics; when there is no valid cached result and either no workspace
\* folder is open or the analysis throws, it returns the default metrics
\* (fileCount 1, totalLines 100, complexity 0.5, projectType 'Unknown',
\* gitActivity 0.5) and leaves cachedMetrics and lastAnalysisTime as they
\* were, so the fallback is never cached.
C19_FallbackNotCached ==
    [][calls' # calls /\ calls'[Len(calls')].model = "analyzer" =>
          LET call == calls'[Len(calls')]
          IN  /\ call.path # "change" => call.out # Null
              /\ call.path \in {"noWorkspace", "failed"} =>
                    /\ ValueOf(call.out).fileCount = 1
                    /\ ValueOf(call.out).totalLines = 100
                    /\ ValueOf(call.out).complexity = Frac(1, 2)
                    /\ ValueOf(call.out).projectType = "Unknown"
                    /\ ValueOf(call.out).gitActivity = Frac(1, 2)
                    /\ projectAnalyzer' = projectAnalyzer]_vars

\* C19 as stated: a call that finds no workspace folder, or whose analysis
\* throws, returns the default metrics.
C19_AsStated ==
    Len(calls) > 0 /\ LastCall.model = "analyzer" /\ FellBack(LastCall)
        => LastCall.out = Some(getDefaultMetrics)

\* a traversal that throws while an earlier result is cached
C19_Witness ==
    /\ Len(calls) > 0
    /\ LastCall.model = "analyzer"
    /\ LastCall.path = "failed"
    /\ projectAnalyzer.cachedMetrics # Null

\* C17 (SpecBackendAnalysis): for every source text, analyzeCode and
\* performCodeAnalysis of the backend yield the duplicate-line count, the
\* complexity and the quality score that analyzeCodeQuality of the
\* extension yields for that text.
C17_SameHeuristic ==
    Len(calls) = 1 /\ calls[1].model = "backend" =>
        LET extension == analyzeCodeQuality(calls[1].arg)
            result == ValueOf(calls[1].out)
            duplicateLines == IF calls[1].op = "analyzeCode"
                              THEN result.metrics.duplicateLines
                              ELSE result.duplicateLines
            complexity == IF calls[1].op = "analyzeCode"
                          THEN R(result.metrics.complexity)
                          ELSE result.complexity
        IN  /\ duplicateLines = findDuplicateLines(calls[1].arg.lines)
            /\ complexity = extension.complexity
            /\ result.qualityScore = extension.qualityScore

\* C18 (SpecUsage): for a user on a limited plan (free 20, pro 1000), the
\* analyses the analyze endpoint performs in the month and the month's
\* analyses_used never exceed the plan's analysis_limit, however concurrent
\* requests of the user interleave; a user on the unlimited plan (-1) is
\* never refused.
C18_LimitNeverExceeded ==
    /\ backend.limit # Unlimited =>
          /\ backend.performed <= backend.limit
          /\ backend.usage # Null => ValueOf(backend.usage) <= backend.limit
    /\ backend.limit = Unlimited => backend.refused = 0

\* C20 (SpecSamples): every QualityPattern in the engine's history has a
\* qualityScore in [0,100] and a complexity in [0,1], whether it came from
\* QualityTracker.generateQualityPattern, from generateTestData or from the
\* loaded storage.
C20_PatternsInRange ==
    \A i \in 1..Len(qualityHistory) :
        /\ qualityHistory[i].qualityScore \in 0..100
        /\ RLe(R(0), qualityHistory[i].complexity)
        /\ RLe(qualityHistory[i].complexity, R(1))

StorageOp(ops) ==
    /\ Len(calls) = 1
    /\ calls[1].model = "storage"
    /\ calls[1].op \in ops

\* what the four loads return on a store whose get succeeds
LoadsOf(store) ==
    [qualityHistory |-> loadQualityHistoryFrom(store, TRUE),
     userSettings |-> loadUserSettings(store, TRUE),
     modelData |-> loadModelData(store, TRUE),
     sessionData |-> loadSessionData(store, TRUE)]

\* C15 (SpecStorage): after exportAllData on a store and importAllData of
\* the exported data into a fresh store, with no get or update failing, the
\* four loads return on the fresh store what they return on the original
\* store, also when the original has no model data or no settings saved.
C15_RoundTripExact ==
    StorageOp({"exportThenImport"}) /\ calls[1].ok
        => LoadsOf(ValueOf(calls[1].out)) = LoadsOf(ValueOf(calls[1].before))

SaveOps == {"saveQualityHistory", "saveUserSettings", "saveModelData", "saveSessionData"}

KeyOf(op) ==
    CASE op \in {"saveQualityHistory", "loadQualityHistory"} -> "qualityHistory"
      [] op \in {"saveUserSettings", "loadUserSettings"} -> "userSettings"
      [] op \in {"saveModelData", "loadModelData"} -> "modelData"
      [] op \in {"saveSessionData", "loadSessionData"} -> "sessionData"

LoadOps == {"loadQualityHistory", "loadUserSettings", "loadModelData", "loadSessionData"}

\* the key is missing in the store the call found, or get threw
NothingToLoad ==
    /\ StorageOp(LoadOps)
    /\ \/ ~calls[1].ok
       \/ ValueOf(calls[1].before)[KeyOf(calls[1].op)] = Undefined

\* C16 (SpecStorage): every load and save returns normally.  A load whose
\* key is missing or whose get throws returns [] (history, sessions), null
\* (model data) or the default settings (qualityThreshold 75,
\* enableAutoTracking and enablePredictions true, analysisDepth 'thorough');
\* a save whose update throws leaves the store as it was, and any save
\* leaves the three other keys as they were.
C16_LoadSaveNeverFail ==
    /\ NothingToLoad =>
          LET out == ValueOf(calls[1].out)
          IN  CASE calls[1].op = "loadQualityHistory" -> out = <<>>
                [] calls[1].op = "loadSessionData" -> out = <<>>
                [] calls[1].op = "loadModelData" -> out = Null
                [] calls[1].op = "loadUserSettings" ->
                      /\ out.qualityThreshold = 75
                      /\ out.enableAutoTracking
                      /\ out.enablePredictions
                      /\ out.analysisDepth = "thorough"
    /\ StorageOp(SaveOps) =>
          /\ ~calls[1].ok => globalState = ValueOf(calls[1].before)
          /\ \A key \in StorageKeys \ {KeyOf(calls[1].op)} :
                 globalState[key] = ValueOf(calls[1].before)[key]

\* get threw on a store that has settings saved, and a save failed on a
\* store that has other keys saved
C16_Witness ==
    \/ /\ StorageOp({"loadUserSettings"})
       /\ ~calls[1].ok
       /\ ValueOf(calls[1].before).userSettings # Undefined
    \/ /\ StorageOp({"saveModelData"})
       /\ ~calls[1].ok
       /\ globalState.sessionData # Undefined


\* C21 (Spec): whatever the history, the models and the project complexity,
\* generateAnalysis returns bugRisk in [0,100], maintainabilityScore and
\* performanceScore in [1,10], confidence in [0,1] and overallQuality in
\* [0,100], with bugRisk = clamp(0,100, complexity*30 + bugProbability of
\* the regression's prediction) and performanceScore =
\* round(clamp(1,10, 8 - complexity*3)).
C21_ResultInRange ==
    lastAnalysis # Null =>
        LET analysis == ValueOf(lastAnalysis)
            result == analysis.result
            complexity == analysis.projectMetrics.complexity
            bugProbability == analysis.regressionAnalysis.riskFactors.bugProbability
        IN  /\ RLe(R(0), complexity) /\ RLe(complexity, R(1))
            /\ RLe(R(0), result.bugRisk) /\ RLe(result.bugRisk, R(100))
            /\ result.maintainabilityScore \in 1..10
            /\ result.performanceScore \in 1..10
            /\ RLe(R(0), result.confidence) /\ RLe(result.confidence, R(1))
            /\ result.overallQuality \in 0..100
            /\ result.bugRisk =
                   Clamp(R(0), R(100), RAdd(RMul(complexity, R(30)), bugProbability))
            /\ result.performanceScore =
                   RRound(Clamp(R(1), R(10), RSub(R(8), RMul(complexity, R(3)))))

\* an analysis with a trained regression model whose bug risk is cut at 100
C21_Witness ==
    /\ lastAnalysis # Null
    /\ ValueOf(lastAnalysis).trained
    /\ Len(ValueOf(lastAnalysis).recentQuality) > 0
    /\ ValueOf(lastAnalysis).result.bugRisk = R(100)
    /\ RLt(R(100), RAdd(RMul(ValueOf(lastAnalysis).projectMetrics.complexity, R(30)),
                         ValueOf(lastAnalysis).regressionAnalysis.riskFactors.bugProbability))


\* C22 (Spec): after the recordQuality calls of a session, all their saves
\* settled, the stored history is the in-memory history, and it is the
\* history the latest call handed to saveQualityHistory, never that of an
\* earlier call.
C22_StoredIsInMemory ==
    lastRecord # Null =>
        /\ globalState.qualityHistory = Some(ValueOf(lastRecord).handed)
        /\ globalState.qualityHistory = Some(qualityHistory)

Holds(history, pattern) ==
    \E i \in 1..Len(history) : history[i] = pattern

\* C25 (Spec): a sample handed to recordQuality at any moment after the
\* construction of the engine, also while the startup load is pending,
\* stays in the in-memory history (the cap of 1000 is out of reach here),
\* and the samples earlier sessions persisted stay in the stored history.
C25_NoSampleLost ==
    /\ \A i \in 1..Len(recorded) : Holds(qualityHistory, recorded[i])
    /\ \A i \in 1..Len(loadHistoricalData.history) :
          /\ globalState.qualityHistory # Undefined
          /\ Holds(ValueOf(globalState.qualityHistory), loadHistoricalData.history[i])

(***************************************************************************)
(* C23: a train call that proceeds (a history of five or more samples)     *)
(* starts from zero weights and zero bias, so the model it leaves is the   *)
(* one a fresh model gets from the same history, whatever the model was    *)
(* trained on before.                                                      *)
(***************************************************************************)
LastIsTrain == Len(calls) > 0 /\ LastCall.model = "regression" /\ LastCall.op = "train"

C23_NoWarmStart ==
    (LastIsTrain /\ Len(LastCall.arg) >= 5) =>
        regressionModel = LinearRegressionModel_train(LinearRegressionModel_new, LastCall.arg)

\* C23 as stated: for every history, five samples or not
C23_AsStated ==
    LastIsTrain =>
        regressionModel = LinearRegressionModel_train(LinearRegressionModel_new, LastCall.arg)

\* a model trained on one history is trained again on another
C23_Witness ==
    /\ LastIsTrain
    /\ Len(LastCall.arg) >= 5
    /\ LastCall.before.isTrained
    /\ LastCall.before # regressionModel

(***************************************************************************)
(* C24: an initialized time-series model asked about a non-empty history   *)
(* answers daily = clamp(0, 100, round(m + t)) and weekly = clamp(0, 100,  *)
(* round(m + 7t)), m the mean score of the last min(7, n) samples of the   *)
(* history handed to predict and t the least-squares slope of the history  *)
(* of the last train that proceeded; every answer is within 0..100.        *)
(***************************************************************************)
MeanOfLast(history, k) ==
    LET n == Len(history)
    IN  Frac(SumInt([i \in 1..n |-> history[i].qualityScore], n - k + 1, n), k)

\* n*sumXY - sumX*sumY and n*sumXX - sumX*sumX over x = 0..n-1
TrendNumerator(history) ==
    LET n == Len(history)
    IN  n * SumInt([i \in 1..n |-> (i - 1) * history[i].qualityScore], 1, n)
          - SumInt([i \in 1..n |-> i - 1], 1, n)
              * SumInt([i \in 1..n |-> history[i].qualityScore], 1, n)

TrendDenominator(n) ==
    n * SumInt([i \in 1..n |-> (i - 1) * (i - 1)], 1, n)
      - SumInt([i \in 1..n |-> i - 1], 1, n) * SumInt([i \in 1..n |-> i - 1], 1, n)

LastIsPredict ==
    Len(calls) > 0 /\ LastCall.model = "timeSeries" /\ LastCall.op = "predict"

C24_PredictFormula ==
    LastIsPredict =>
        LET prediction == ValueOf(LastCall.out)
            history == LastCall.arg
            t == LastCall.before.trendCoefficient
        IN  /\ prediction.daily \in 0..100
            /\ prediction.weekly \in 0..100
            /\ (LastCall.before.isInitialized /\ Len(history) > 0) =>
                  LET m == MeanOfLast(history, Min(7, Len(history)))
                  IN  /\ prediction.daily = ClampInt(0, 100, RRound(RAdd(m, t)))
                      /\ prediction.weekly =
                            ClampInt(0, 100, RRound(RAdd(m, RMul(R(7), t))))
            /\ (Len(calls) = 2 /\ calls[1].op = "train" /\ Len(calls[1].arg) >= 7) =>
                  t = Frac(TrendNumerator(calls[1].arg), TrendDenominator(Len(calls[1].arg)))

\* a prediction from more than seven samples whose weekly value is cut at 100
C24_Witness ==
    /\ LastIsPredict
    /\ LastCall.before.isInitialized
    /\ Len(LastCall.arg) > 7
    /\ Len(calls) = 2 /\ calls[1].op = "train" /\ Len(calls[1].arg) >= 7
    /\ ValueOf(LastCall.out).weekly = 100
    /\ RLt(R(100), RAdd(MeanOfLast(LastCall.arg, 7),
                        RMul(R(7), LastCall.before.trendCoefficient)))
    /\ ValueOf(LastCall.out).daily < 100

(***************************************************************************)
(* C28: analyzeTrend never divides by zero.  For every length n >= 2 the   *)
(* denominator n*sumXX - sumX*sumX over x = 0..n-1 is positive; after a    *)
(* train that proceeds the coefficient is the quotient by that             *)
(* denominator, a number; on fewer than two samples analyzeTrend sets the  *)
(* coefficient to 0 whatever it was.                                       *)
(***************************************************************************)
MaxTrendLength == 60

LastIsTimeSeriesTrain ==
    Len(calls) > 0 /\ LastCall.model = "timeSeries" /\ LastCall.op = "train"

C28_NoDivisionByZero ==
    /\ \A n \in 2..MaxTrendLength : TrendDenominator(n) > 0
    /\ LastIsTimeSeriesTrain =>
          LET history == LastCall.arg
          IN  /\ Len(history) >= 7 =>
                    /\ TrendDenominator(Len(history)) > 0
                    /\ timeSeriesModel.trendCoefficient =
                          Frac(TrendNumerator(history), TrendDenominator(Len(history)))
                    /\ timeSeriesModel.trendCoefficient[2] > 0
              /\ \A k \in 0..Min(1, Len(history)) :
                    analyzeTrend(timeSeriesModel, SubSeq(history, 1, k)).trendCoefficient
                        = R(0)

\* a train went through and left a slope other than 0
C28_Witness ==
    /\ LastIsTimeSeriesTrain
    /\ Len(LastCall.arg) >= 7
    /\ timeSeriesModel.trendCoefficient # R(0)
    /\ analyzeTrend(timeSeriesModel, SubSeq(LastCall.arg, 1, 1)).trendCoefficient = R(0)

(***************************************************************************)
(* C26: in one engine session the regression model is trained and the      *)
(* time-series model initialized only by a recordQuality call that leaves  *)
(* the history with more than 10 entries; the startup load trains          *)
(* nothing; while the history has 6 to 10 entries the regression model is  *)
(* untrained and generateAnalysis takes the fallback prediction.           *)
(***************************************************************************)
\* the two clauses about which step trains: they hold in every session
C26_TrainedOnlyByRecordAboveTen ==
    [][/\ (regressionModel' # regressionModel \/ timeSeriesModel' # timeSeriesModel) =>
             /\ recorded' # recorded
             /\ Len(qualityHistory') > 10
       /\ loadHistoricalData' # loadHistoricalData =>
             /\ regressionModel' = regressionModel
             /\ timeSeriesModel' = timeSeriesModel]_vars

\* a generateAnalysis call that completes over a history of 6 to 10 entries
\* hands out the fallback prediction
FallbackUpToTen ==
    (lastAnalysis' # lastAnalysis /\ Len(qualityHistory) \in 6..10) =>
        ValueOf(lastAnalysis').regressionAnalysis
            = fallbackPrediction(ValueOf(lastAnalysis').recentQuality)

C26_UntrainedUpToTen ==
    /\ C26_TrainedOnlyByRecordAboveTen
    /\ [](Len(qualityHistory) \in 6..10 => ~regressionModel.isTrained)
    /\ [][FallbackUpToTen]_vars

(***************************************************************************)
(* C27: while the tracker is not tracking, recordQualityAnalysis,          *)
(* recordDuplicateCode and recordLongFunction leave recentActivity as it   *)
(* was; no call but resetSession lowers a counter or clears                *)
(* longFunctionsAdded; resetSession zeroes the activity and leaves         *)
(* isTracking as it was.                                                   *)
(***************************************************************************)
RecordOps == {"recordQualityAnalysis", "recordDuplicateCode", "recordLongFunction"}

LastOnTracker == Len(calls) > 0 /\ LastCall.model = "tracker"

NotLower(before, after) ==
    /\ after.complexityIncreases >= before.complexityIncreases
    /\ after.duplicateCodeDetected >= before.duplicateCodeDetected
    /\ after.filesAnalyzed >= before.filesAnalyzed
    /\ after.issuesFound >= before.issuesFound
    /\ before.longFunctionsAdded => after.longFunctionsAdded

C27_TrackerFrame ==
    LastOnTracker =>
        LET before == LastCall.before
            after == LastCall.out
        IN  /\ after = tracker
            /\ (LastCall.op \in RecordOps /\ ~before.isTracking) =>
                  after.recentActivity = before.recentActivity
            /\ LastCall.op # "resetSession" =>
                  NotLower(before.recentActivity, after.recentActivity)
            /\ LastCall.op = "resetSession" =>
                  /\ after.recentActivity = NoActivity
                  /\ after.isTracking = before.isTracking

\* duplicates reported to a tracker that was stopped with activity on record
C27_Witness ==
    /\ LastOnTracker
    /\ LastCall.op = "recordDuplicateCode"
    /\ ~LastCall.before.isTracking
    /\ LastCall.before.recentActivity.duplicateCodeDetected > 0
    /\ LastCall.before.recentActivity.longFunctionsAdded
    /\ LastCall.before.recentActivity.filesAnalyzed > 0

(***************************************************************************)
(* C29: the cache never regresses when calls overlap.  Once the calls that *)
(* missed the cache have finished, cachedMetrics and lastAnalysisTime are  *)
(* those of one analysis, and no step sets lastAnalysisTime to a time      *)
(* before the one it held: the result of a call that started earlier does  *)
(* not replace the result of one that started later.                       *)
(***************************************************************************)
\* the cache holds the result and the start of the call that finished last
CacheOfOneAnalysis ==
    (Len(calls) > 0 /\ LastCall.path = "analysed") =>
        /\ projectAnalyzer.cachedMetrics = LastCall.out
        /\ projectAnalyzer.lastAnalysisTime = LastCall.start

Sent(tx, statement) == \E i \in 1..Len(tx.issued) : tx.issued[i] = statement

Threw(tx, step) == \E i \in 1..Len(tx.threw) : tx.threw[i] = step

TransactionDone == backend.pc = "done" /\ backend.client # Null

CallbackResolved(tx) == tx.callback # Null /\ ValueOf(tx.callback).kind = "returned"

\* what the claim fixes apart from the error handed to the caller
AllOrNothing(tx) ==
    /\ tx.issued[1] = "BEGIN"
    /\ Sent(tx, "COMMIT") <=> CallbackResolved(tx)
    /\ ValueOf(tx.outcome).kind = "returned" <=> (Sent(tx, "COMMIT") /\ tx.threw = <<>>)
    /\ ValueOf(tx.outcome).kind = "returned" => tx.outcome = tx.callback
    /\ Sent(tx, "ROLLBACK") <=> (tx.threw # <<>>)
    /\ Sent(tx, "ROLLBACK") <=> ~(tx.issued[Len(tx.issued)] = "COMMIT")
    /\ ValueOf(tx.outcome).kind = "thrown" <=> Sent(tx, "ROLLBACK")
    /\ tx.released = 1

\* the error of the step that threw first
FirstError(tx) == IF tx.threw[1] = "callback" THEN ValueOf(tx.callback).value ELSE tx.threw[1]

C30_AllOrNothingLeakFree ==
    TransactionDone =>
        /\ AllOrNothing(backend)
        /\ Sent(backend, "ROLLBACK") =>
              backend.outcome = Some(Thrown(IF Threw(backend, "ROLLBACK") THEN "ROLLBACK"
                                            ELSE FirstError(backend)))

\* C30 as stated: whenever ROLLBACK is sent, the error caught is rethrown
C30_AsStated ==
    TransactionDone =>
        /\ AllOrNothing(backend)
        /\ Sent(backend, "ROLLBACK") => backend.outcome = Some(Thrown(FirstError(backend)))

\* the callback sent its statements and threw, and ROLLBACK threw as well
C30_Witness ==
    /\ TransactionDone
    /\ backend.threw = <<"callback", "ROLLBACK">>
    /\ Sent(backend, "UPDATE")
    /\ backend.released = 1

====
